---- MODULE Spec2Model ----
(***************************************************************************)
(* A model of the event bus of SnoopTrade's backend                        *)
(* (src/backend/services/event_bus.py): the embedded (in-memory) backend,  *)
(* the retry-and-dead-letter executor, the dead-letter store with its      *)
(* replay operations, the broker (Kafka) backend as far as the facade's    *)
(* start/fallback needs it, and the process-wide facade.                   *)
(*                                                                         *)
(* Threads: callers of the facade (publishers, the admin replay, the       *)
(* scheduled batch replay) and the backends' dispatch threads.  A handler  *)
(* call is one step of a dispatch thread; its outcome (return or raise of  *)
(* an Exception) is chosen by the environment.                             *)
(***************************************************************************)
EXTENDS Integers, Sequences, FiniteSets, TLC

-----------------------------------------------------------------------------
\* Bounds of the model (not program constants).

\* publish_event calls per behaviour of Spec
MaxPublishes == 2
\* subscribe_event calls per behaviour of Spec
MaxSubscribes == 2
\* start_event_bus calls per behaviour
MaxStarts == 2
\* stop_event_bus calls per behaviour
MaxStops == 1
\* single (admin) replays per behaviour
MaxReplays == 2
\* batch replays per behaviour
MaxBatches == 1
\* publishes above the queue's capacity that SpecQueue tries
QueueOverfill == 1

\* Program constants.

\* _max_handler_retries clamps to 0..8
MaxRetriesCap == 8
\* default of EVENT_BUS_HANDLER_MAX_RETRIES
DefaultRetries == 2
\* _handler_retry_backoff_ms clamps to 0..5000
MaxBackoffCap == 5000
\* default of EVENT_BUS_HANDLER_RETRY_BACKOFF_MS
DefaultBackoff == 200
\* InMemoryEventBus.__init__: queue.Queue(maxsize=max(100, max_queue_size))
MinQueueCapacity == 100
\* retry_failed_event_bus_dead_letters: fetch_limit = max(1, min(500, limit))
MaxBatchLimit == 500
MaxListLimit == 200
\* default of EVENT_BUS_MEMORY_QUEUE_MAX
DefaultQueueMax == 5000

-----------------------------------------------------------------------------
\* Values.

Handlers == {"h1", "h2"}

\* Topics as callers pass them; Strip is str(topic or "").strip().
RawTopics == {"a", " a ", "b", ""}

Strip(t) ==
    CASE t = " a " -> "a"
      [] t = " "   -> ""
      [] OTHER     -> t

Topics == {Strip(t) : t \in RawTopics} \ {""}

\* Payload values.  "p1", "p2" and "empty" ({}) are dicts; "str" is a stored
\* value that is not a dict, "missing" an absent field (None); "envelope" is
\* the envelope itself, which _extract_payload returns for a non-dict payload.
DictPayloads == {"p1", "p2", "empty"}
IsDict(p) == p \in DictPayloads \cup {"envelope"}

NoTime == 0
InvalidId == 0
NoStatus == "none"

Max(a, b) == IF a >= b THEN a ELSE b
Min(a, b) == IF a <= b THEN a ELSE b

RECURSIVE Pow2(_)
Pow2(n) == IF n = 0 THEN 1 ELSE 2 * Pow2(n - 1)

Range(s) == {s[i] : i \in 1..Len(s)}

RECURSIVE SumSeq(_)
SumSeq(s) == IF s = <<>> THEN 0 ELSE Head(s) + SumSeq(Tail(s))

-----------------------------------------------------------------------------
VARIABLES
    cfg,                  \* the environment: backend, retries, delay_ms, max_queue_size, audit
    event_bus_instance,   \* _event_bus_instance: "none", "memory" or "kafka"
    event_subscriptions,  \* _event_subscriptions: sequence of <<raw topic, handler>>
    handlers,             \* InMemoryEventBus._handlers: topic -> sequence of handlers
    queue,                \* InMemoryEventBus._queue
    running,              \* InMemoryEventBus._running
    threads,              \* the live dispatch threads (memory workers, kafka consumers)
    kafka,                \* KafkaEventBus: handlers, running, producer, consumer, subscribed, log
    dlq,                  \* EVENT_BUS_DLQ_COLLECTION: sequence of documents, _id = index
    audit,                \* EVENT_BUS_AUDIT_COLLECTION: sequence of <<topic, status>>
    clock,                \* datetime.now(): a logical clock
    nextEid,              \* number of envelopes built so far (event_id)
    pend,                 \* a publish between its running check and its put_nowait
    batch,                \* the batch replay in progress
    budget,               \* calls the environment may still make
    sent,                 \* history: per event_id, what was published and accepted
    disp,                 \* history: per event_id, the dispatch (snapshot, calls)
    lastRun,              \* history: the last finished _run_handler_with_retry
    lastPublish,          \* history: the last finished publish call
    lastReplay,           \* history: the last finished retry_event_bus_dead_letter
    lastBatch,            \* history: the last finished batch replay
    lastStart,            \* history: the last start_event_bus (its path, and the
                          \* pairs the fallback path found recorded)
    app,                  \* the application: its lifespan phase, scheduler running
    lastList,             \* history: the last list_event_bus_dead_letters
    lastEmit,             \* history: the last _emit_data_refresh_event
    lastScan,             \* history: the last run_alert_scan_for_user
    auth,                 \* the users' stored refresh tokens and the tokens issued
    lastStatus,           \* history: the last get_event_bus_status
    race,                 \* subscribe_event and start_event_bus calls in progress, step by step
    replays,              \* retry_event_bus_dead_letter calls in progress, step by step
    store_up,             \* whether the store accepts a write (insert_one returns) or raises
    lastCreate            \* history: the first _create_event_bus

facadeVars == <<event_bus_instance, event_subscriptions>>
memVars    == <<handlers, queue, running>>
storeVars  == <<dlq, audit, clock>>
histVars   == <<sent, disp, lastRun, lastPublish, lastReplay, lastBatch, lastStart>>

vars == <<cfg, store_up, replays, race, lastCreate, lastStatus, event_bus_instance, event_subscriptions, handlers, queue, running,
          threads, kafka, dlq, audit, clock, nextEid, pend, batch, budget,
          sent, disp, lastRun, lastPublish, lastReplay, lastBatch, lastStart,
          app, lastList, lastEmit, lastScan, auth>>

\* Everything of the event bus and the application around it.
busVars == <<cfg, store_up, replays, race, lastCreate, lastStatus, event_bus_instance, event_subscriptions, handlers, queue,
             running, threads, kafka, dlq, audit, clock, nextEid, pend, batch,
             budget, sent, disp, lastRun, lastPublish, lastReplay, lastBatch,
             lastStart, app>>

-----------------------------------------------------------------------------
\* Configuration.

\* _max_handler_retries and _handler_retry_backoff_ms: the parsed value clamped.
ClampRetriesNoFloor(parsed) == Min(MaxRetriesCap, parsed)
ClampRetries(parsed) == Max(0, Min(MaxRetriesCap, parsed))
ClampBackoff(parsed) == Max(0, Min(MaxBackoffCap, parsed))

\* The environment's values are texts; Unset is a variable that is not set.
Unset == "(unset)"

\* The environment as the parsed integers a specification fixes.
NoEnv == [retries |-> Unset, backoff |-> Unset, queue_max |-> Unset]

\* os.getenv(name, default)
Getenv(v, default) == IF v = Unset THEN default ELSE v

\* str.strip() on the texts used here.
StripText(x) ==
    CASE x = " 3 " -> "3"
      [] x = "   " -> ""
      [] OTHER     -> x

\* The texts that int() accepts (after stripping white space), with their values.
IntTexts == {"-5", "-1", "0", "1", "2", "3", "8", "9", "200", "5000", "5001"}
IntOf(x) ==
    CASE x = "-5" -> 0 - 5
      [] x = "-1" -> 0 - 1
      [] x = "0" -> 0
      [] x = "1" -> 1
      [] x = "2" -> 2
      [] x = "3" -> 3
      [] x = "8" -> 8
      [] x = "9" -> 9
      [] x = "200" -> 200
      [] x = "5000" -> 5000
      [] x = "5001" -> 5001

\* int(x): the value, or ValueError.
ParseInt(x) ==
    IF StripText(x) \in IntTexts
    THEN [ok |-> TRUE, value |-> IntOf(StripText(x))]
    ELSE [ok |-> FALSE, value |-> 0]

\* os.getenv(name, default).strip() or default
StrippedOr(v, default) ==
    IF StripText(Getenv(v, default)) = "" THEN default
    ELSE StripText(Getenv(v, default))

\* _max_handler_retries: a text that is no integer counts as the default.
MaxHandlerRetriesZeroOnError(v) ==
    ClampRetries(IF ParseInt(StrippedOr(v, "2")).ok
                 THEN ParseInt(StrippedOr(v, "2")).value ELSE 0)
MaxHandlerRetries(v) ==
    ClampRetries(IF ParseInt(StrippedOr(v, "2")).ok
                 THEN ParseInt(StrippedOr(v, "2")).value ELSE DefaultRetries)

\* _handler_retry_backoff_ms
HandlerRetryBackoffMs(v) ==
    ClampBackoff(IF ParseInt(StrippedOr(v, "200")).ok
                 THEN ParseInt(StrippedOr(v, "200")).value ELSE DefaultBackoff)

\* _create_event_bus: int(os.getenv("EVENT_BUS_MEMORY_QUEUE_MAX", "5000"))
MemoryQueueMax(v) == ParseInt(Getenv(v, "5000"))

\* InMemoryEventBus.__init__: the queue's capacity.
QueueCapacity(max_queue_size) == Max(MinQueueCapacity, max_queue_size)

Capacity == QueueCapacity(cfg.max_queue_size)

-----------------------------------------------------------------------------
\* Envelopes.

NoneItem == [event_id |-> 0, topic |-> "", payload |-> "missing"]
IsNone(item) == item.event_id = 0

\* _build_envelope (key and produced_at are carried along and never read by the
\* embedded backend; they are left out).
BuildEnvelope(topic, payload) ==
    [event_id |-> nextEid + 1, topic |-> topic, payload |-> payload]

\* _extract_payload on an envelope.
ExtractPayloadWhole(item) == "envelope"
ExtractPayload(item) ==
    IF IsDict(item.payload) THEN item.payload ELSE "envelope"

-----------------------------------------------------------------------------
\* The retry-and-dead-letter executor's policy (_run_handler_with_retry).

\* What one attempt leads to: the handler returned (ok) or raised an Exception.
\* "propagate" is an exception leaving the executor; the code never does that.
AttemptResultRetryForever(ok, attempt, retries) ==
    IF ok THEN "return_true"
    ELSE IF attempt > retries THEN "dead_letter"
    ELSE "retry"
AttemptResultPropagates(ok, attempt, retries) ==
    IF ok THEN "return_true"
    ELSE IF attempt >= retries THEN "propagate"
    ELSE "retry"
AttemptResult(ok, attempt, retries) ==
    IF ok THEN "return_true"
    ELSE IF attempt >= retries THEN "dead_letter"
    ELSE "retry"

\* The sleeps between attempts: none when delay_ms is 0.
SleepMsLinear(delay_ms, attempt) == delay_ms * (attempt + 1) * 2
SleepMs(delay_ms, attempt) == delay_ms * Pow2(attempt)

SleepsAfterRetryAlways(sleeps, delay_ms, attempt) ==
    Append(sleeps, SleepMs(delay_ms, attempt))
SleepsAfterRetry(sleeps, delay_ms, attempt) ==
    IF delay_ms > 0 THEN Append(sleeps, SleepMs(delay_ms, attempt)) ELSE sleeps

\* _record_dead_letter: the document it inserts (error is str(exc)[:2000]).
DeadLetterDocPerBackend(topic, payload, handler, backend, attempts, now) ==
    [topic |-> topic, payload |-> payload, handler |-> handler,
     backend |-> backend, error |-> "exc",
     attempts |-> IF backend = "kafka" THEN 1 ELSE attempts,
     status |-> "failed", retry_count |-> 0, created_at |-> now,
     updated_at |-> now, last_failed_at |-> now, last_retry_at |-> NoTime]
DeadLetterDoc(topic, payload, handler, backend, attempts, now) ==
    [topic |-> topic, payload |-> payload, handler |-> handler,
     backend |-> backend, error |-> "exc", attempts |-> attempts,
     status |-> "failed", retry_count |-> 0, created_at |-> now,
     updated_at |-> now, last_failed_at |-> now, last_retry_at |-> NoTime]

\* _record_audit: only when EVENT_BUS_AUDIT_ENABLED is true.
RecordAudit(log, topic, status) ==
    IF cfg.audit THEN Append(log, <<topic, status>>) ELSE log

-----------------------------------------------------------------------------
\* The embedded backend's registry and queue.

\* InMemoryEventBus.subscribe, for a topic that is not blank.
MemSubscribe(hs, t, h) == [hs EXCEPT ![Strip(t)] = Append(@, h)]

\* queue.put_nowait: queue.Full when the queue holds maxsize items.
PutNowaitUnbounded(q, item, cap) == [ok |-> TRUE, queue |-> Append(q, item)]
PutNowait(q, item, cap) ==
    IF Len(q) < cap THEN [ok |-> TRUE, queue |-> Append(q, item)]
    ELSE [ok |-> FALSE, queue |-> q]

\* The facade's registry: subscribe_event appends a pair it does not hold yet.
RecordSubscription(subs, t, h) ==
    IF <<t, h>> \in Range(subs) THEN subs ELSE Append(subs, <<t, h>>)

\* start_event_bus, fallback: the recorded pairs subscribed in order on the
\* fresh embedded backend; subscribe raises ValueError at a blank topic and the
\* loop ends there.
RECURSIVE SubscribeAll(_, _)
SubscribeAll(subs, hs) ==
    IF subs = <<>> THEN [handlers |-> hs, raised |-> FALSE]
    ELSE IF Strip(Head(subs)[1]) = "" THEN [handlers |-> hs, raised |-> TRUE]
    ELSE SubscribeAll(Tail(subs), MemSubscribe(hs, Head(subs)[1], Head(subs)[2]))

NoHandlers == [t \in Topics |-> <<>>]

\* _get_event_bus: the instance, created from the configuration when there is none.
GetEventBus ==
    IF event_bus_instance = "none" THEN cfg.backend ELSE event_bus_instance

-----------------------------------------------------------------------------
\* Dispatch threads.

IdleThread(backend) ==
    [backend |-> backend, pc |-> "idle", eid |-> 0, topic |-> "",
     payload |-> "missing", todo |-> <<>>, attempt |-> 0,
     outcomes |-> <<>>, sleeps |-> <<>>]

RemoveAt(s, i) == SubSeq(s, 1, i - 1) \o SubSeq(s, i + 1, Len(s))

NoRun ==
    [eid |-> 0, handler |-> "", topic |-> "", payload |-> "missing",
     backend |-> "", outcomes |-> <<>>, sleeps |-> <<>>, result |-> FALSE,
     dlq |-> <<>>, retries |-> 0, delay_ms |-> 0]

NoPend == [active |-> FALSE, origin |-> "", id |-> 0, env |-> NoneItem]

NoBatch ==
    [pc |-> "idle", docs |-> <<>>, was |-> <<>>, i |-> 1, include |-> FALSE,
     limit |-> 0, store |-> <<>>, n0 |-> 0,
     attempted |-> 0, republished |-> 0, retry_failed |-> 0]

-----------------------------------------------------------------------------
\* Initial states: nothing constructed yet, the store as a previous run of the
\* process left it.

\* The clock reads later than every timestamp in the store.
RECURSIVE StoreClock(_)
StoreClock(store) ==
    IF store = <<>> THEN 1
    ELSE Max(1 + Max(Head(store).updated_at, Head(store).created_at),
             StoreClock(Tail(store)))

\* The application before its lifespan is entered: the scheduler is not started.
\* Before the first _emit_data_refresh_event: no call of publish_event.
NoEmit == [done |-> FALSE, enabled |-> FALSE, calls |-> <<>>, raised |-> FALSE,
           publish |-> "", started_at |-> 0, finished_at |-> 0]

\* Before the first run_alert_scan_for_user.
NoScan == [done |-> FALSE, generated |-> 0, total_active_rules |-> 0,
           publishes |-> 0, fallbacks |-> 0, publish_returns |-> FALSE]

\* The users of the token endpoints.
Users == {"u1", "u2"}

\* No refresh_token_jti_hash field in a user document.
NoHash == <<>>

\* No user has a stored refresh token and no token has been issued.
NoAuth ==
    [users |-> [u \in Users |-> [hash |-> NoHash, exp |-> NoTime]],
     now |-> 1, nextJti |-> 0, tokens |-> <<>>, ops |-> 0,
     logged_out |-> [u \in Users |-> FALSE],
     reqs |-> [w \in {"w1", "w2"} |-> [pc |-> "idle", presented |-> 0]],
     redemptions |-> <<>>,
     last |-> [op |-> "", user |-> "", presented |-> 0, status |-> 0,
               issued |-> 0, prev_hash |-> NoHash, was_logged_out |-> FALSE]]

\* Before the first _create_event_bus.
NoCreate == [done |-> FALSE, raised |-> FALSE, max_queue_size |-> 0]

\* Before the first get_event_bus_status.
NoStatusReport ==
    [done |-> FALSE, backend |-> "", running |-> FALSE, topics |-> {},
     failed |-> 0, retry_failed |-> 0, republished |-> 0]

\* No start() of the broker backend was part of the last start_event_bus.
NoBackendStart ==
    [raised |-> FALSE, thread |-> FALSE, constructed |-> {}, closed |-> {},
     running |-> FALSE, producer |-> FALSE, consumer |-> FALSE,
     subscribed |-> {}]

AppCreated == [lifespan |-> "created", scheduler |-> FALSE]

\* No replay is in progress and none was begun.
NoReplays ==
    [run |-> [r \in {"admin", "batch"} |->
                 [pc |-> "idle", todo |-> <<>>, doc |-> <<>>,
                  invalid |-> FALSE, published |-> FALSE]],
     attempts |-> <<>>, outcomes |-> <<>>, overlapped |-> {}]

\* No subscribe_event and no start_event_bus is in progress.
NoRace ==
    [s |-> "idle", topic |-> "", handler |-> "", fresh |-> FALSE, bus |-> "",
     f |-> "idle", snapshot |-> <<>>, i |-> 0, backend |-> NoBackendStart]

InitState(c, store, b) ==
    /\ cfg = c
    /\ event_bus_instance = "none"
    /\ event_subscriptions = <<>>
    /\ handlers = NoHandlers
    /\ queue = <<>>
    /\ running = FALSE
    /\ threads = <<>>
    /\ kafka = [handlers |-> NoHandlers, running |-> FALSE,
                producer |-> FALSE, consumer |-> FALSE,
                subscribed |-> {}, log |-> <<>>]
    /\ dlq = store
    /\ audit = <<>>
    /\ clock = StoreClock(store)
    /\ nextEid = 0
    /\ pend = NoPend
    /\ batch = NoBatch
    /\ budget = b
    /\ sent = <<>>
    /\ disp = <<>>
    /\ lastRun = NoRun
    /\ lastPublish = [origin |-> "", topic |-> "", payload |-> "missing",
                      ok |-> FALSE, eid |-> 0, undrained |-> TRUE,
                      bus |-> "", found_running |-> FALSE, cause |-> "",
                      raised |-> FALSE]
    /\ lastReplay = [n |-> 0, id |-> 0, origin |-> "", ok |-> FALSE,
                     reason |-> "",
                     published |-> FALSE, eid |-> 0, topic |-> "",
                     payload |-> "missing", before |-> <<>>, at |-> NoTime]
    /\ lastBatch = [done |-> FALSE, attempted |-> 0, republished |-> 0,
                    retry_failed |-> 0, docs |-> <<>>, was |-> <<>>,
                    include |-> FALSE, limit |-> 0, store |-> <<>>,
                    n0 |-> 0]
    /\ lastStart = [path |-> "", raised |-> FALSE, recorded |-> <<>>,
                    backend |-> NoBackendStart]
    /\ app = AppCreated
    /\ lastList = [done |-> FALSE, limit |-> 0, status |-> NoStatus,
                   fetch_limit |-> 0, items |-> <<>>, store |-> <<>>]
    /\ lastEmit = NoEmit
    /\ lastScan = NoScan
    /\ auth = NoAuth
    /\ lastStatus = NoStatusReport
    /\ lastCreate = NoCreate
    /\ store_up = TRUE
    /\ replays = NoReplays
    /\ race = NoRace

-----------------------------------------------------------------------------
\* The facade: subscribe_event, start_event_bus, stop_event_bus.

\* KafkaEventBus._refresh_subscription: without a consumer, or with no topic
\* registered, nothing; otherwise the consumer subscribes to the sorted list
\* of the registered topics.
RefreshSubscription(k) ==
    LET topics == {x \in Topics : k.handlers[x] # <<>>} IN
    IF ~k.consumer \/ topics = {} THEN k
    ELSE [k EXCEPT !.subscribed = topics]

\* KafkaEventBus.subscribe for a topic that is not blank.
KafkaSubscribeNoRefresh(k, t, h) ==
    [k EXCEPT !.handlers = MemSubscribe(k.handlers, t, h)]
KafkaSubscribe(k, t, h) ==
    RefreshSubscription([k EXCEPT !.handlers = MemSubscribe(k.handlers, t, h)])

\* subscribe_event(t, h): record the pair, then forward to the active backend,
\* whose subscribe raises ValueError for a blank topic (after the pair has
\* been recorded).
SubscribeEvent(t, h) ==
    /\ budget.subscribe > 0
    /\ budget' = [budget EXCEPT !.subscribe = @ - 1]
    /\ event_subscriptions' = RecordSubscription(event_subscriptions, t, h)
    /\ event_bus_instance' = GetEventBus
    /\ IF Strip(t) = ""
       THEN UNCHANGED <<handlers, kafka>>
       ELSE IF GetEventBus = "memory"
       THEN /\ handlers' = MemSubscribe(handlers, t, h)
            /\ UNCHANGED kafka
       ELSE /\ kafka' = KafkaSubscribe(kafka, t, h)
            /\ UNCHANGED handlers
    /\ UNCHANGED <<cfg, store_up, replays, race, lastCreate, lastStatus, lastList, lastEmit, lastScan, auth, app, queue, running, threads, dlq, audit, clock, nextEid,
                   pend, batch, sent, disp, lastRun, lastPublish, lastReplay,
                   lastBatch, lastStart>>

\* start_event_bus with the embedded backend active: InMemoryEventBus.start.
StartMemory ==
    /\ budget.start > 0
    /\ GetEventBus = "memory"
    /\ budget' = [budget EXCEPT !.start = @ - 1]
    /\ event_bus_instance' = "memory"
    /\ IF running
       THEN UNCHANGED <<running, threads>>
       ELSE /\ running' = TRUE
            /\ threads' = Append(threads, IdleThread("memory"))
    /\ lastStart' = [path |-> "memory", raised |-> FALSE, recorded |-> <<>>,
                     backend |-> NoBackendStart]
    /\ UNCHANGED <<cfg, store_up, replays, race, lastCreate, lastStatus, lastList, lastEmit, lastScan, auth, app, event_subscriptions, handlers, queue, kafka, dlq, audit,
                   clock, nextEid, pend, batch, sent, disp, lastRun,
                   lastPublish, lastReplay, lastBatch>>

\* What the construction of the two clients in KafkaEventBus.start does.
KafkaStartOutcomes == {"started", "producer_fails", "consumer_fails"}

\* The clients KafkaEventBus.start has constructed when it leaves its try block.
Constructed(out) ==
    CASE out = "producer_fails" -> {}
      [] out = "consumer_fails" -> {"producer"}
      [] OTHER -> {"producer", "consumer"}

\* KafkaEventBus.start on backend k: the backend after it, whether it raised,
\* whether it started the consumer thread, and the clients it constructed and
\* closed.
KafkaStartKeepsProducer(k, out) ==
    IF k.running
    THEN [kafka |-> k, raised |-> FALSE, thread |-> FALSE, constructed |-> {},
          closed |-> {}]
    ELSE IF out = "started"
    THEN [kafka |-> [RefreshSubscription([k EXCEPT !.producer = TRUE,
                                                   !.consumer = TRUE,
                                                   !.subscribed = {}])
                         EXCEPT !.running = TRUE],
          raised |-> FALSE, thread |-> TRUE, constructed |-> Constructed(out),
          closed |-> {}]
    ELSE [kafka |-> [k EXCEPT !.running = FALSE,
                              !.producer = "producer" \in Constructed(out),
                              !.consumer = FALSE],
          raised |-> TRUE, thread |-> FALSE, constructed |-> Constructed(out),
          closed |-> {}]
KafkaStart(k, out) ==
    IF k.running
    THEN [kafka |-> k, raised |-> FALSE, thread |-> FALSE, constructed |-> {},
          closed |-> {}]
    ELSE IF out = "started"
    THEN [kafka |-> [RefreshSubscription([k EXCEPT !.producer = TRUE,
                                                   !.consumer = TRUE,
                                                   !.subscribed = {}])
                         EXCEPT !.running = TRUE],
          raised |-> FALSE, thread |-> TRUE, constructed |-> Constructed(out),
          closed |-> {}]
    ELSE [kafka |-> [k EXCEPT !.running = FALSE, !.producer = FALSE,
                              !.consumer = FALSE],
          raised |-> TRUE, thread |-> FALSE, constructed |-> Constructed(out),
          closed |-> Constructed(out)]

\* The part of lastStart that records a start() of the broker backend.
BackendStart(r) ==
    [raised |-> r.raised, thread |-> r.thread, constructed |-> r.constructed,
     closed |-> r.closed, running |-> r.kafka.running,
     producer |-> r.kafka.producer, consumer |-> r.kafka.consumer,
     subscribed |-> r.kafka.subscribed]

\* start_event_bus with the broker backend active and KafkaEventBus.start
\* returning: already running, or both clients constructed.
StartKafka ==
    /\ budget.start > 0
    /\ GetEventBus = "kafka"
    /\ budget' = [budget EXCEPT !.start = @ - 1]
    /\ event_bus_instance' = "kafka"
    /\ LET r == KafkaStart(kafka, "started") IN
       /\ kafka' = r.kafka
       /\ threads' = IF r.thread THEN Append(threads, IdleThread("kafka"))
                     ELSE threads
       /\ lastStart' = [path |-> "kafka", raised |-> FALSE, recorded |-> <<>>,
                        backend |-> BackendStart(r)]
    /\ UNCHANGED <<cfg, store_up, replays, race, lastCreate, lastStatus, lastList, lastEmit, lastScan, auth, app, event_subscriptions, handlers, queue, running, dlq,
                   audit, clock, nextEid, pend, batch, sent, disp, lastRun,
                   lastPublish, lastReplay, lastBatch>>

\* start_event_bus with the broker backend active and KafkaEventBus.start
\* raising: a fresh embedded backend becomes the instance, the recorded pairs
\* are subscribed on it and it is started; a ValueError of subscribe leaves
\* start_event_bus before fallback_bus.start().
StartFallback ==
    /\ budget.start > 0
    /\ GetEventBus = "kafka"
    /\ ~kafka.running
    /\ budget' = [budget EXCEPT !.start = @ - 1]
    /\ event_bus_instance' = "memory"
    /\ \E out \in KafkaStartOutcomes \ {"started"} :
         LET k == KafkaStart(kafka, out)
             r == SubscribeAll(event_subscriptions, NoHandlers)
         IN
         /\ k.raised
         /\ kafka' = k.kafka
         /\ handlers' = r.handlers
         /\ queue' = <<>>
         /\ running' = ~r.raised
         /\ threads' = IF r.raised THEN threads
                       ELSE Append(threads, IdleThread("memory"))
         /\ lastStart' = [path |-> "fallback", raised |-> r.raised,
                          recorded |-> event_subscriptions,
                          backend |-> BackendStart(k)]
    /\ UNCHANGED <<cfg, store_up, replays, race, lastCreate, lastStatus, lastList, lastEmit, lastScan, auth, app, event_subscriptions, dlq, audit, clock, nextEid, pend,
                   batch, sent, disp, lastRun, lastPublish, lastReplay,
                   lastBatch>>

\* subscribe_event and the fallback path of start_event_bus taken step by
\* step, for calls made by two threads.  subscribe_event: the append under
\* the lock, _get_event_bus under the lock, bus.subscribe on the bus it got.
\* start_event_bus: bus.start() raising, the swap and the snapshot under the
\* lock, the loop over the snapshot, fallback_bus.start().

\* subscribe_event, lines 648-651: the pair is recorded unless it is there.
SubscribeAppend(t, h) ==
    /\ race.s = "idle"
    /\ race' = [race EXCEPT !.s = "appended", !.topic = t, !.handler = h,
                            !.fresh = <<t, h>> \notin Range(event_subscriptions)]
    /\ event_subscriptions' = RecordSubscription(event_subscriptions, t, h)
    /\ UNCHANGED <<cfg, store_up, replays, lastCreate, lastStatus, lastList, lastEmit, lastScan, auth, app, event_bus_instance, handlers, queue, running,
                   threads, kafka, dlq, audit, clock, nextEid, pend, batch,
                   budget, sent, disp, lastRun, lastPublish, lastReplay,
                   lastBatch, lastStart>>

\* subscribe_event, line 652: bus = _get_event_bus().
SubscribeGetBus ==
    /\ race.s = "appended"
    /\ race' = [race EXCEPT !.s = "got", !.bus = GetEventBus]
    /\ event_bus_instance' = GetEventBus
    /\ UNCHANGED <<cfg, store_up, replays, lastCreate, lastStatus, lastList, lastEmit, lastScan, auth, app, event_subscriptions, handlers, queue, running,
                   threads, kafka, dlq, audit, clock, nextEid, pend, batch,
                   budget, sent, disp, lastRun, lastPublish, lastReplay,
                   lastBatch, lastStart>>

\* subscribe_event, line 653: bus.subscribe(topic, handler) on the bus it got;
\* a broker backend that was replaced meanwhile is still the one subscribed.
SubscribeForward ==
    /\ race.s = "got"
    /\ race' = [race EXCEPT !.s = "done"]
    /\ IF Strip(race.topic) = ""
       THEN UNCHANGED <<handlers, kafka>>
       ELSE IF race.bus = "memory"
       THEN /\ handlers' = MemSubscribe(handlers, race.topic, race.handler)
            /\ UNCHANGED kafka
       ELSE /\ kafka' = KafkaSubscribe(kafka, race.topic, race.handler)
            /\ UNCHANGED handlers
    /\ UNCHANGED <<cfg, store_up, replays, lastCreate, lastStatus, lastList, lastEmit, lastScan, auth, app, event_bus_instance, event_subscriptions, queue, running,
                   threads, dlq, audit, clock, nextEid, pend, batch,
                   budget, sent, disp, lastRun, lastPublish, lastReplay,
                   lastBatch, lastStart>>

\* start_event_bus, lines 624-629: bus.start() of the broker backend raises.
StartRaises ==
    /\ race.f = "idle"
    /\ budget.start > 0
    /\ GetEventBus = "kafka"
    /\ ~kafka.running
    /\ budget' = [budget EXCEPT !.start = @ - 1]
    /\ event_bus_instance' = "kafka"
    /\ \E out \in KafkaStartOutcomes \ {"started"} :
         LET k == KafkaStart(kafka, out) IN
         /\ k.raised
         /\ kafka' = k.kafka
         /\ race' = [race EXCEPT !.f = "raised", !.backend = BackendStart(k)]
    /\ UNCHANGED <<cfg, store_up, replays, lastCreate, lastStatus, lastList, lastEmit, lastScan, auth, app, event_subscriptions, handlers, queue, running,
                   threads, dlq, audit, clock, nextEid, pend, batch, sent,
                   disp, lastRun, lastPublish, lastReplay, lastBatch,
                   lastStart>>

\* start_event_bus, lines 631-635: a fresh embedded backend becomes the
\* instance and the recorded pairs are copied, both under the lock.
FallbackSwap ==
    /\ race.f = "raised"
    /\ race' = [race EXCEPT !.f = "swapped", !.snapshot = event_subscriptions,
                            !.i = 1]
    /\ event_bus_instance' = "memory"
    /\ handlers' = NoHandlers
    /\ queue' = <<>>
    /\ running' = FALSE
    /\ UNCHANGED <<cfg, store_up, replays, lastCreate, lastStatus, lastList, lastEmit, lastScan, auth, app, event_subscriptions, threads, kafka, dlq, audit,
                   clock, nextEid, pend, batch, budget, sent, disp, lastRun,
                   lastPublish, lastReplay, lastBatch, lastStart>>

\* start_event_bus, lines 637-638: one turn of the loop over the copy; a
\* ValueError of subscribe leaves start_event_bus.
FallbackSubscribe ==
    /\ race.f = "swapped"
    /\ race.i <= Len(race.snapshot)
    /\ LET t == race.snapshot[race.i][1]
           h == race.snapshot[race.i][2]
       IN
       IF Strip(t) = ""
       THEN /\ race' = [race EXCEPT !.f = "done"]
            /\ lastStart' = [path |-> "fallback", raised |-> TRUE,
                             recorded |-> race.snapshot,
                             backend |-> race.backend]
            /\ UNCHANGED handlers
       ELSE /\ race' = [race EXCEPT !.i = @ + 1]
            /\ handlers' = MemSubscribe(handlers, t, h)
            /\ UNCHANGED lastStart
    /\ UNCHANGED <<cfg, store_up, replays, lastCreate, lastStatus, lastList, lastEmit, lastScan, auth, app, event_bus_instance, event_subscriptions, queue,
                   running, threads, kafka, dlq, audit, clock, nextEid, pend,
                   batch, budget, sent, disp, lastRun, lastPublish, lastReplay,
                   lastBatch>>

\* start_event_bus, line 639: fallback_bus.start().
FallbackStart ==
    /\ race.f = "swapped"
    /\ race.i > Len(race.snapshot)
    /\ race' = [race EXCEPT !.f = "done"]
    /\ running' = TRUE
    /\ threads' = Append(threads, IdleThread("memory"))
    /\ lastStart' = [path |-> "fallback", raised |-> FALSE,
                     recorded |-> race.snapshot, backend |-> race.backend]
    /\ UNCHANGED <<cfg, store_up, replays, lastCreate, lastStatus, lastList, lastEmit, lastScan, auth, app, event_bus_instance, event_subscriptions, handlers,
                   queue, kafka, dlq, audit, clock, nextEid, pend, batch,
                   budget, sent, disp, lastRun, lastPublish, lastReplay,
                   lastBatch>>

\* The store stops accepting writes, and accepts them again.
StoreFails ==
    /\ store_up
    /\ store_up' = FALSE
    /\ UNCHANGED <<cfg, replays, race, lastCreate, lastStatus, lastList, lastEmit, lastScan, auth, app, event_bus_instance, event_subscriptions, handlers,
                   queue, running, threads, kafka, dlq, audit, clock, nextEid,
                   pend, batch, budget, sent, disp, lastRun, lastPublish,
                   lastReplay, lastBatch, lastStart>>

StoreRecovers ==
    /\ ~store_up
    /\ store_up' = TRUE
    /\ UNCHANGED <<cfg, replays, race, lastCreate, lastStatus, lastList, lastEmit, lastScan, auth, app, event_bus_instance, event_subscriptions, handlers,
                   queue, running, threads, kafka, dlq, audit, clock, nextEid,
                   pend, batch, budget, sent, disp, lastRun, lastPublish,
                   lastReplay, lastBatch, lastStart>>

\* stop_event_bus: stop() of the active backend.  The embedded backend clears
\* the flag and enqueues the sentinel unless the queue is full; its join has a
\* timeout and is not waited for here.
StopEventBus ==
    /\ budget.stop > 0
    /\ budget' = [budget EXCEPT !.stop = @ - 1]
    /\ event_bus_instance' = GetEventBus
    /\ IF GetEventBus = "memory"
       THEN /\ running' = FALSE
            /\ queue' = IF running THEN PutNowait(queue, NoneItem, Capacity).queue
                        ELSE queue
            /\ UNCHANGED kafka
       ELSE /\ kafka' = IF kafka.running
                        THEN [kafka EXCEPT !.running = FALSE, !.producer = FALSE,
                                           !.consumer = FALSE]
                        ELSE kafka
            /\ UNCHANGED <<running, queue>>
    /\ UNCHANGED <<cfg, store_up, replays, race, lastCreate, lastStatus, lastList, lastEmit, lastScan, auth, app, event_subscriptions, handlers, threads, dlq, audit,
                   clock, nextEid, pend, batch, sent, disp, lastRun,
                   lastPublish, lastReplay, lastBatch, lastStart>>

-----------------------------------------------------------------------------
\* The dead-letter store's replay updates (retry_event_bus_dead_letter).

\* payload = doc.get("payload") if isinstance(doc.get("payload"), dict) else {}
ReplayPayload(doc) == IF IsDict(doc.payload) THEN doc.payload ELSE "empty"

\* if not topic or not isinstance(payload, dict)
ReplayMalformed(doc) ==
    Strip(doc.topic) = "" \/ ~IsDict(ReplayPayload(doc))

\* update_one on the malformed path
ReplayInvalidUpdateRepairs(doc, now) ==
    [doc EXCEPT !.status = "retry_failed", !.updated_at = now,
                !.error = "dead_letter_payload_invalid",
                !.retry_count = @ + 1, !.payload = "empty"]
ReplayInvalidUpdate(doc, now) ==
    [doc EXCEPT !.status = "retry_failed", !.updated_at = now,
                !.error = "dead_letter_payload_invalid",
                !.retry_count = @ + 1]

\* update_one after publish_event returned `published`
ReplayUpdateKeepsStatus(doc, published, now) ==
    [doc EXCEPT !.status = IF published THEN "republished" ELSE @,
                !.updated_at = now, !.last_retry_at = now,
                !.retry_count = @ + 1]
ReplayUpdateKeepsCount(doc, published, now) ==
    [doc EXCEPT !.status = IF published THEN "republished" ELSE "retry_failed",
                !.updated_at = now, !.last_retry_at = now]
ReplayUpdate(doc, published, now) ==
    [doc EXCEPT !.status = IF published THEN "republished" ELSE "retry_failed",
                !.updated_at = now, !.last_retry_at = now,
                !.retry_count = @ + 1]

\* The batch replay's selection (retry_failed_event_bus_dead_letters).
FetchLimit(limit) == Max(1, Min(MaxBatchLimit, limit))

BatchStatusesAll(include_retry_failed) == {"failed", "retry_failed", "republished"}
BatchStatuses(include_retry_failed) ==
    IF include_retry_failed THEN {"failed", "retry_failed"} ELSE {"failed"}

\* .sort("created_at", 1): ascending, ties in store order.
RECURSIVE SortNewestFirst(_, _)
SortNewestFirst(store, ids) ==
    IF ids = {} THEN <<>>
    ELSE LET first == CHOOSE i \in ids : \A j \in ids :
                          \/ store[i].created_at > store[j].created_at
                          \/ (store[i].created_at = store[j].created_at /\ i <= j)
         IN <<first>> \o SortNewestFirst(store, ids \ {first})

RECURSIVE SortByCreatedAt(_, _)
SortByCreatedAt(store, ids) ==
    IF ids = {} THEN <<>>
    ELSE LET first == CHOOSE i \in ids : \A j \in ids :
                          \/ store[i].created_at < store[j].created_at
                          \/ (store[i].created_at = store[j].created_at /\ i <= j)
         IN <<first>> \o SortByCreatedAt(store, ids \ {first})

Take(s, n) == SubSeq(s, 1, Min(n, Len(s)))

BatchSelect(store, limit, include_retry_failed) ==
    Take(SortByCreatedAt(store,
             {i \in 1..Len(store) :
                  store[i].status \in BatchStatuses(include_retry_failed)}),
         FetchLimit(limit))

\* One pass of the batch's loop body, after retry_event_bus_dead_letter returned.
BatchAfter(b, ok) ==
    [b EXCEPT !.pc = "run", !.i = @ + 1, !.attempted = @ + 1,
              !.republished = IF ok THEN @ + 1 ELSE @,
              !.retry_failed = IF ok THEN @ ELSE @ + 1]

-----------------------------------------------------------------------------
\* publish and replay.  A call of publish on the embedded backend takes two
\* steps, the running check with the envelope's construction and put_nowait,
\* so that stop() and the dispatch loop can come between them.

Dequeued == Cardinality({e \in 1..Len(disp) : disp[e].state # "none"})

\* retry_event_bus_dead_letter returns (and writes `store`).
ReplayReturn(origin, id, ok, reason, published, eid, t, p, store, ticks) ==
    /\ dlq' = store
    /\ clock' = clock + ticks
    /\ lastReplay' = [n |-> lastReplay.n + 1,
                      id |-> id, origin |-> origin, ok |-> ok, reason |-> reason,
                      published |-> published, eid |-> eid, topic |-> t,
                      payload |-> p,
                      before |-> IF id \in 1..Len(dlq) THEN <<dlq[id]>> ELSE <<>>,
                      at |-> clock]
    /\ batch' = IF origin = "batch" THEN BatchAfter(batch, ok) ELSE batch

\* publish returns `ok`; a replay that called it goes on to its update_one.
FinishPublish(origin, id, t, p, result, eid, ran, cause) ==
    LET ok == result = "true" IN
    /\ lastPublish' = [origin |-> origin, topic |-> t, payload |-> p, ok |-> ok,
                       eid |-> eid, undrained |-> Dequeued = 0,
                       bus |-> GetEventBus, found_running |-> ran,
                       cause |-> cause, raised |-> result = "raise"]
    /\ IF origin = "api"
       THEN UNCHANGED <<dlq, clock, lastReplay, batch>>
       ELSE ReplayReturn(origin, id, ok,
                         IF ok THEN "republished" ELSE "publish_failed",
                         TRUE, eid, t, p,
                         [dlq EXCEPT ![id] = ReplayUpdate(@, ok, clock)], 1)

NewSent(origin, backend, t, p, ran) ==
    [origin |-> origin, backend |-> backend, topic |-> t, payload |-> p,
     accepted |-> "pending", running_at_call |-> ran,
     running_at_put |-> FALSE]
NewDisp ==
    [state |-> "none", snapshot |-> <<>>, calls |-> <<>>, runs |-> <<>>,
     dead |-> 0]

\* InMemoryEventBus.publish: if not self._running.is_set(): return False
PassesRunningCheckAlways(r) == TRUE
PassesRunningCheck(r) == r

\* The active backend is running: publish builds an envelope.
BackendRunning ==
    \/ GetEventBus = "memory" /\ PassesRunningCheck(running)
    \/ GetEventBus = "kafka" /\ kafka.running

\* What the broker does with a send: it acknowledges it, the send fails, or
\* no acknowledgment arrives within the publish timeout (the record then was
\* lost or is delivered all the same).
SendOutcomes == {"acked", "send_error", "timeout_lost", "timeout_delivered"}

AckChoices ==
    IF GetEventBus = "kafka" /\ kafka.running THEN SendOutcomes ELSE {"acked"}

\* KafkaEventBus.publish: send and future.get inside try / except Exception.
KafkaPublishResultUncaught(out) ==
    CASE out = "acked" -> "true"
      [] out = "send_error" -> "raise"
      [] OTHER -> "false"
KafkaPublishResult(out) == IF out = "acked" THEN "true" ELSE "false"

\* InMemoryEventBus.publish: put_nowait inside try / except queue.Full.
MemoryPublishResult(put_ok) == IF put_ok THEN "true" ELSE "false"

\* publish_event(t, p) as called by `origin`; out is what the broker does.
PublishCall(origin, id, t, p, out) ==
    LET bus == GetEventBus
        env == BuildEnvelope(t, p)
        res == KafkaPublishResult(out)
    IN
    /\ event_bus_instance' = bus
    /\ IF bus = "memory" /\ PassesRunningCheck(running)
       THEN /\ pend' = [active |-> TRUE, origin |-> origin, id |-> id, env |-> env]
            /\ nextEid' = nextEid + 1
            /\ sent' = Append(sent, NewSent(origin, "memory", t, p, running))
            /\ disp' = Append(disp, NewDisp)
            /\ batch' = IF origin = "batch" THEN [batch EXCEPT !.pc = "wait"]
                        ELSE batch
            /\ UNCHANGED <<kafka, lastPublish, dlq, clock, lastReplay>>
       ELSE IF bus = "kafka" /\ kafka.running
       THEN /\ nextEid' = nextEid + 1
            /\ sent' = Append(sent, [NewSent(origin, "kafka", t, p, kafka.running)
                                         EXCEPT
                                         !.accepted = IF res = "true" THEN "yes"
                                                      ELSE "no",
                                         !.running_at_put = TRUE])
            /\ disp' = Append(disp, NewDisp)
            /\ kafka' = IF out \in {"acked", "timeout_delivered"}
                           /\ t \in kafka.subscribed
                        THEN [kafka EXCEPT !.log = Append(@, env)]
                        ELSE kafka
            /\ FinishPublish(origin, id, t, p, res, nextEid + 1, kafka.running,
                             out)
            /\ UNCHANGED pend
       ELSE /\ FinishPublish(origin, id, t, p, "false", 0,
                             IF bus = "kafka" THEN kafka.running ELSE running,
                             "not_running")
            /\ UNCHANGED <<pend, nextEid, sent, disp, kafka>>

\* publish_event called by a producer.
PublishEvent(t, p) ==
    /\ budget.publish > 0
    /\ ~pend.active
    /\ budget' = IF BackendRunning THEN [budget EXCEPT !.publish = @ - 1]
                 ELSE budget
    /\ \E out \in AckChoices : PublishCall("api", 0, t, p, out)
    /\ UNCHANGED <<cfg, store_up, replays, race, lastCreate, lastStatus, lastList, lastEmit, lastScan, auth, app, event_subscriptions, handlers, queue, running, threads,
                   audit, lastRun, lastBatch, lastStart>>

\* The second step of InMemoryEventBus.publish: put_nowait.
PublishEnd ==
    /\ pend.active
    /\ LET r == PutNowait(queue, pend.env, Capacity)
           e == pend.env.event_id
       IN
       /\ queue' = r.queue
       /\ sent' = [sent EXCEPT ![e].accepted = IF r.ok THEN "yes" ELSE "no",
                               ![e].running_at_put = running]
       /\ FinishPublish(pend.origin, pend.id, pend.env.topic, pend.env.payload,
                        MemoryPublishResult(r.ok), e, sent[e].running_at_call,
                        IF r.ok THEN "enqueued" ELSE "queue_full")
    /\ pend' = NoPend
    /\ UNCHANGED <<cfg, store_up, replays, race, lastCreate, lastStatus, lastList, lastEmit, lastScan, auth, app, event_bus_instance, event_subscriptions, handlers,
                   running, threads, kafka, audit, nextEid, budget, disp,
                   lastRun, lastBatch, lastStart>>

\* list_event_bus_dead_letters: fetch_limit = max(1, min(200, int(limit))).
ListFetchLimitUncapped(limit) == Max(1, limit)
ListFetchLimit(limit) == Max(1, Min(MaxListLimit, limit))

\* str(status).strip().lower()
NormalizeStatus(status) ==
    CASE status = "FAILED" -> "failed"
      [] status = " failed " -> "failed"
      [] status = " " -> ""
      [] OTHER -> status

\* The query: no condition for None or the empty string, else the status
\* equal to the normalised value.
ListMatchesRaw(status, doc) ==
    status \in {NoStatus, ""} \/ doc.status = status
ListMatches(status, doc) ==
    status \in {NoStatus, ""} \/ doc.status = NormalizeStatus(status)

\* .sort("created_at", -1): descending, ties in store order.
RECURSIVE SortByCreatedAtDesc(_, _)
SortByCreatedAtDesc(store, ids) ==
    IF ids = {} THEN <<>>
    ELSE LET first == CHOOSE i \in ids : \A j \in ids :
                          \/ store[i].created_at > store[j].created_at
                          \/ (store[i].created_at = store[j].created_at /\ i <= j)
         IN <<first>> \o SortByCreatedAtDesc(store, ids \ {first})

\* find(query).sort("created_at", -1).limit(fetch_limit): the ids found.
ListSelect(store, limit, status) ==
    Take(SortByCreatedAtDesc(store,
             {i \in 1..Len(store) : ListMatches(status, store[i])}),
         ListFetchLimit(limit))

\* list_event_bus_dead_letters(limit, status).
ListDeadLetters(limit, status) ==
    /\ lastList' = [done |-> TRUE, limit |-> limit, status |-> status,
                    fetch_limit |-> ListFetchLimit(limit),
                    items |-> ListSelect(dlq, limit, status),
                    store |-> dlq]
    /\ UNCHANGED <<busVars, lastEmit, lastScan, auth>>

\* The first _get_event_bus of the process with the embedded backend
\* configured: _create_event_bus constructs the backend, or int() raises
\* ValueError and there is no instance.
CreateEventBus ==
    /\ event_bus_instance = "none"
    /\ ~lastCreate.done
    /\ LET q == MemoryQueueMax(cfg.raw.queue_max) IN
       /\ lastCreate' = [done |-> TRUE, raised |-> ~q.ok,
                         max_queue_size |-> q.value]
       /\ event_bus_instance' = IF q.ok THEN cfg.backend ELSE "none"
    /\ UNCHANGED <<cfg, store_up, replays, race, lastStatus, lastList, lastEmit, lastScan, auth, app, event_subscriptions, handlers,
                   queue, running, threads, kafka, dlq, audit, clock, nextEid,
                   pend, batch, budget, sent, disp, lastRun, lastPublish,
                   lastReplay, lastBatch, lastStart>>

\* count_documents({"status": status})
CountDocuments(store, status) ==
    Cardinality({i \in 1..Len(store) : store[i].status = status})

\* get_event_bus_status: the active backend's status() with the counts of the
\* dead letters of each status.
GetEventBusStatus ==
    /\ event_bus_instance' = GetEventBus
    /\ lastStatus' =
         [done |-> TRUE, backend |-> GetEventBus,
          running |-> IF GetEventBus = "memory" THEN running ELSE kafka.running,
          topics |-> IF GetEventBus = "memory"
                     THEN {t \in Topics : handlers[t] # <<>>}
                     ELSE {t \in Topics : kafka.handlers[t] # <<>>},
          failed |-> CountDocuments(dlq, "failed"),
          retry_failed |-> CountDocuments(dlq, "retry_failed"),
          republished |-> CountDocuments(dlq, "republished")]
    /\ UNCHANGED <<cfg, store_up, replays, race, lastCreate, lastList, lastEmit, lastScan, auth, app, event_subscriptions, handlers,
                   queue, running, threads, kafka, dlq, audit, clock, nextEid,
                   pend, batch, budget, sent, disp, lastRun, lastPublish,
                   lastReplay, lastBatch, lastStart>>

\* retry_event_bus_dead_letter: ObjectId(dead_letter_id) raising, then
\* find_one finding nothing.
ReplayLookupAnyId(id, store) ==
    IF id \notin 1..Len(store) THEN "dead_letter_not_found" ELSE "found"
ReplayLookup(id, store) ==
    IF id = InvalidId THEN "invalid_dead_letter_id"
    ELSE IF id \notin 1..Len(store) THEN "dead_letter_not_found"
    ELSE "found"

\* retry_event_bus_dead_letter(id) as called by `origin`.
ReplayCall(origin, id, out) ==
    IF ReplayLookup(id, dlq) # "found"
    THEN /\ ReplayReturn(origin, id, FALSE, ReplayLookup(id, dlq),
                         FALSE, 0, "", "missing", dlq, 0)
         /\ UNCHANGED <<event_bus_instance, pend, nextEid, sent, disp, kafka,
                        lastPublish>>
    ELSE IF ReplayMalformed(dlq[id])
    THEN /\ ReplayReturn(origin, id, FALSE, "dead_letter_payload_invalid",
                         FALSE, 0, "", "missing",
                         [dlq EXCEPT ![id] = ReplayInvalidUpdate(@, clock)], 1)
         /\ UNCHANGED <<event_bus_instance, pend, nextEid, sent, disp, kafka,
                        lastPublish>>
    ELSE PublishCall(origin, id, Strip(dlq[id].topic), ReplayPayload(dlq[id]), out)

\* The admin operation: one replay of the record with the given id.
RetryDeadLetter(id) ==
    /\ budget.replay > 0
    /\ ~pend.active
    /\ budget' = [budget EXCEPT !.replay = @ - 1]
    /\ \E out \in AckChoices : ReplayCall("admin", id, out)
    /\ UNCHANGED <<cfg, store_up, replays, race, lastCreate, lastStatus, lastList, lastEmit, lastScan, auth, app, event_subscriptions, handlers, queue, running, threads,
                   audit, lastRun, lastBatch, lastStart>>

\* retry_failed_event_bus_dead_letters(limit, include_retry_failed): the find.
BatchStart(limit, include_retry_failed) ==
    /\ budget.batch > 0
    /\ batch.pc = "idle"
    /\ budget' = [budget EXCEPT !.batch = @ - 1]
    /\ LET ids == BatchSelect(dlq, limit, include_retry_failed) IN
       batch' = [NoBatch EXCEPT !.pc = "run", !.docs = ids,
                                !.was = [i \in 1..Len(ids) |-> dlq[ids[i]]],
                                !.include = include_retry_failed,
                                !.limit = limit, !.store = dlq,
                                !.n0 = lastReplay.n]
    /\ UNCHANGED <<cfg, store_up, replays, race, lastCreate, lastStatus, lastList, lastEmit, lastScan, auth, app, event_bus_instance, event_subscriptions, handlers,
                   queue, running, threads, kafka, dlq, audit, clock, nextEid,
                   pend, sent, disp, lastRun, lastPublish, lastReplay,
                   lastBatch, lastStart>>

\* One pass of the batch's loop: the replay of the next selected document.
BatchStep ==
    /\ batch.pc = "run"
    /\ batch.i <= Len(batch.docs)
    /\ ~pend.active
    /\ \E out \in AckChoices : ReplayCall("batch", batch.docs[batch.i], out)
    /\ UNCHANGED <<cfg, store_up, replays, race, lastCreate, lastStatus, lastList, lastEmit, lastScan, auth, app, event_subscriptions, handlers, queue, running, threads,
                   audit, budget, lastRun, lastBatch, lastStart>>

\* The batch returns its counts.
BatchReturn ==
    /\ batch.pc = "run"
    /\ batch.i > Len(batch.docs)
    /\ lastBatch' = [done |-> TRUE, attempted |-> batch.attempted,
                     republished |-> batch.republished,
                     retry_failed |-> batch.retry_failed, docs |-> batch.docs,
                     was |-> batch.was, include |-> batch.include,
                     limit |-> batch.limit, store |-> batch.store,
                     n0 |-> batch.n0]
    /\ batch' = NoBatch
    /\ UNCHANGED <<cfg, store_up, replays, race, lastCreate, lastStatus, lastList, lastEmit, lastScan, auth, app, event_bus_instance, event_subscriptions, handlers,
                   queue, running, threads, kafka, dlq, audit, clock, nextEid,
                   pend, budget, sent, disp, lastRun, lastPublish, lastReplay,
                   lastStart>>

-----------------------------------------------------------------------------
\* Replays of dead letters running at the same time: the admin operation and
\* the batch, each going through its documents with find_one, publish_event
\* and update_one as separate steps.

Replayers == {"admin", "batch"}

\* update_one({"_id": id}, {"$set": ..., "$inc": {"retry_count": 1}}): the
\* store applies the operators to the document as it is then, not to the copy
\* the caller read.
UpdateOneFromRead(store, id, read, invalid, published, now) ==
    [store EXCEPT ![id] = IF invalid THEN ReplayInvalidUpdate(read, now)
                          ELSE ReplayUpdate(read, published, now)]
UpdateOne(store, id, read, invalid, published, now) ==
    [store EXCEPT ![id] = IF invalid THEN ReplayInvalidUpdate(@, now)
                          ELSE ReplayUpdate(@, published, now)]

\* The admin operation is called with an id; the batch finds its documents.
ReplayBegin(r, ids) ==
    /\ replays.run[r].pc = "idle"
    /\ ids # <<>>
    /\ IF r = "admin" THEN budget.replay > 0 ELSE budget.batch > 0
    /\ budget' = IF r = "admin" THEN [budget EXCEPT !.replay = @ - 1]
                 ELSE [budget EXCEPT !.batch = @ - 1]
    /\ replays' = [replays EXCEPT !.run[r].pc = "find", !.run[r].todo = ids]
    /\ UNCHANGED <<cfg, store_up, race, lastCreate, lastStatus, lastList, lastEmit, lastScan, auth, app, event_bus_instance, event_subscriptions, handlers,
                   queue, running, threads, kafka, dlq, audit, clock, nextEid,
                   pend, batch, sent, disp, lastRun, lastPublish, lastReplay,
                   lastBatch, lastStart>>

\* retry_event_bus_dead_letter, line 511: find_one.
ReplayFind(r) ==
    /\ replays.run[r].pc = "find"
    /\ LET id == Head(replays.run[r].todo) IN
       replays' = [replays EXCEPT !.run[r].pc = "publish",
                                  !.run[r].doc = dlq[id],
                                  !.attempts = Append(@, id),
                                  !.overlapped =
                                      IF \E o \in Replayers \ {r} :
                                             /\ replays.run[o].pc \in {"publish", "update"}
                                             /\ Head(replays.run[o].todo) = id
                                      THEN @ \cup {id} ELSE @]
    /\ UNCHANGED <<cfg, store_up, race, lastCreate, lastStatus, lastList, lastEmit, lastScan, auth, app, event_bus_instance, event_subscriptions, handlers,
                   queue, running, threads, kafka, dlq, audit, clock, nextEid,
                   pend, batch, budget, sent, disp, lastRun, lastPublish,
                   lastReplay, lastBatch, lastStart>>

\* retry_event_bus_dead_letter, lines 515-532: the document read is malformed,
\* or publish_event is called with its topic and payload.
ReplayPublish(r) ==
    /\ replays.run[r].pc = "publish"
    /\ GetEventBus = "memory"
    /\ event_bus_instance' = "memory"
    /\ LET doc == replays.run[r].doc
           id == Head(replays.run[r].todo)
           env == BuildEnvelope(Strip(doc.topic), ReplayPayload(doc))
           put == PutNowait(queue, env, Capacity)
           ok == ~ReplayMalformed(doc) /\ PassesRunningCheck(running) /\ put.ok
       IN
       /\ replays' = [replays EXCEPT
                         !.run[r].pc = "update",
                         !.run[r].invalid = ReplayMalformed(doc),
                         !.run[r].published = ok,
                         !.outcomes = Append(@, <<id, IF ok THEN "republished"
                                                      ELSE "retry_failed">>)]
       /\ IF ~ReplayMalformed(doc) /\ PassesRunningCheck(running)
          THEN /\ queue' = put.queue
               /\ nextEid' = nextEid + 1
               /\ sent' = Append(sent, [NewSent(r, "memory", env.topic,
                                                env.payload, running)
                                           EXCEPT
                                           !.accepted = IF put.ok THEN "yes"
                                                        ELSE "no",
                                           !.running_at_put = running])
               /\ disp' = Append(disp, NewDisp)
          ELSE UNCHANGED <<queue, nextEid, sent, disp>>
    /\ UNCHANGED <<cfg, store_up, race, lastCreate, lastStatus, lastList, lastEmit, lastScan, auth, app, event_subscriptions, handlers, running,
                   threads, kafka, dlq, audit, clock, pend, batch, budget,
                   lastRun, lastPublish, lastReplay, lastBatch, lastStart>>

\* retry_event_bus_dead_letter, lines 518-528 and 534-544: update_one, and the
\* call returns; the batch goes on to its next document.
ReplayStore(r) ==
    /\ replays.run[r].pc = "update"
    /\ LET run == replays.run[r] IN
       /\ dlq' = UpdateOne(dlq, Head(run.todo), run.doc, run.invalid,
                           run.published, clock)
       /\ replays' = [replays EXCEPT
                         !.run[r].todo = Tail(@),
                         !.run[r].pc = IF Tail(run.todo) = <<>> THEN "idle"
                                       ELSE "find"]
    /\ clock' = clock + 1
    /\ UNCHANGED <<cfg, store_up, race, lastCreate, lastStatus, lastList, lastEmit, lastScan, auth, app, event_bus_instance, event_subscriptions, handlers,
                   queue, running, threads, kafka, audit, nextEid, pend, batch,
                   budget, sent, disp, lastRun, lastPublish, lastReplay,
                   lastBatch, lastStart>>

-----------------------------------------------------------------------------
\* The dispatch threads: InMemoryEventBus._worker_loop, KafkaEventBus._consumer_loop
\* and, for both, _dispatch with _run_handler_with_retry.

\* _dispatch: the snapshot of the topic's handlers, taken under the lock.
BeginDispatch(th, e, topic, payload, snapshot) ==
    [th EXCEPT !.pc = "run", !.eid = e, !.topic = topic, !.payload = payload,
               !.todo = snapshot, !.attempt = 0, !.outcomes = <<>>,
               !.sleeps = <<>>]

\* while self._running.is_set() or not self._queue.empty()
LoopConditionWhileEmpty(r, q) == r \/ q = <<>>
LoopCondition(r, q) == r \/ q # <<>>

\* _worker_loop: the loop's condition is false; the thread ends.
WorkerExit(i) ==
    /\ i \in 1..Len(threads)
    /\ threads[i].backend = "memory"
    /\ threads[i].pc = "idle"
    /\ ~LoopCondition(running, queue)
    /\ threads' = RemoveAt(threads, i)
    /\ UNCHANGED <<cfg, store_up, replays, race, lastCreate, lastStatus, lastList, lastEmit, lastScan, auth, app, event_bus_instance, event_subscriptions, handlers,
                   queue, running, kafka, dlq, audit, clock, nextEid, pend,
                   batch, budget, sent, disp, lastRun, lastPublish, lastReplay,
                   lastBatch, lastStart>>

\* _worker_loop: one item dequeued; a sentinel or an envelope with a blank topic
\* is dropped, any other envelope is dispatched.  (A get that times out on an
\* empty queue changes nothing and is a stuttering step.)
WorkerGet(i) ==
    /\ i \in 1..Len(threads)
    /\ threads[i].backend = "memory"
    /\ threads[i].pc = "idle"
    /\ queue # <<>>
    /\ queue' = Tail(queue)
    /\ LET item == Head(queue)
           topic == Strip(item.topic)
           payload == ExtractPayload(item)
           snapshot == IF topic = "" THEN <<>> ELSE handlers[topic]
       IN
       IF IsNone(item)
       THEN UNCHANGED <<threads, disp>>
       ELSE /\ disp' = [disp EXCEPT ![item.event_id] =
                            [@ EXCEPT !.state = IF snapshot = <<>> THEN "done"
                                                ELSE "running",
                                      !.snapshot = snapshot]]
            /\ threads' = IF snapshot = <<>> THEN threads
                          ELSE [threads EXCEPT ![i] =
                                    BeginDispatch(@, item.event_id, topic,
                                                  payload, snapshot)]
    /\ UNCHANGED <<cfg, store_up, replays, race, lastCreate, lastStatus, lastList, lastEmit, lastScan, auth, app, event_bus_instance, event_subscriptions, handlers,
                   running, kafka, dlq, audit, clock, nextEid, pend, batch,
                   budget, sent, lastRun, lastPublish, lastReplay, lastBatch,
                   lastStart>>

\* _consumer_loop: the loop's condition is false; the thread ends.
KafkaExit(i) ==
    /\ i \in 1..Len(threads)
    /\ threads[i].backend = "kafka"
    /\ threads[i].pc = "idle"
    /\ ~kafka.running
    /\ threads' = RemoveAt(threads, i)
    /\ UNCHANGED <<cfg, store_up, replays, race, lastCreate, lastStatus, lastList, lastEmit, lastScan, auth, app, event_bus_instance, event_subscriptions, handlers,
                   queue, running, kafka, dlq, audit, clock, nextEid, pend,
                   batch, budget, sent, disp, lastRun, lastPublish, lastReplay,
                   lastBatch, lastStart>>

\* _consumer_loop: one polled record is dispatched.
KafkaPoll(i) ==
    /\ i \in 1..Len(threads)
    /\ threads[i].backend = "kafka"
    /\ threads[i].pc = "idle"
    /\ kafka.running
    /\ kafka.consumer
    /\ kafka.log # <<>>
    /\ kafka' = [kafka EXCEPT !.log = Tail(@)]
    /\ LET item == Head(kafka.log)
           topic == item.topic
           payload == ExtractPayload(item)
           snapshot == IF topic \in Topics THEN kafka.handlers[topic] ELSE <<>>
       IN
       /\ disp' = [disp EXCEPT ![item.event_id] =
                       [@ EXCEPT !.state = IF snapshot = <<>> THEN "done"
                                           ELSE "running",
                                 !.snapshot = snapshot]]
       /\ threads' = IF snapshot = <<>> THEN threads
                     ELSE [threads EXCEPT ![i] =
                               BeginDispatch(@, item.event_id, topic, payload,
                                             snapshot)]
    /\ UNCHANGED <<cfg, store_up, replays, race, lastCreate, lastStatus, lastList, lastEmit, lastScan, auth, app, event_bus_instance, event_subscriptions, handlers,
                   queue, running, dlq, audit, clock, nextEid, pend, batch,
                   budget, sent, lastRun, lastPublish, lastReplay, lastBatch,
                   lastStart>>

\* The thread after _run_handler_with_retry returned for the head of todo.
AfterRunFirstOnly(th) == IdleThread(th.backend)
AfterRun(th) ==
    IF Len(th.todo) = 1 THEN IdleThread(th.backend)
    ELSE [th EXCEPT !.todo = Tail(@), !.attempt = 0, !.outcomes = <<>>,
                    !.sleeps = <<>>]

RunRecord(th, outcomes, sleeps, result, ids) ==
    [eid |-> th.eid, handler |-> Head(th.todo), topic |-> th.topic,
     payload |-> th.payload, backend |-> th.backend, outcomes |-> outcomes,
     sleeps |-> sleeps, result |-> result, dlq |-> ids,
     retries |-> cfg.retries, delay_ms |-> cfg.delay_ms]

\* The history of event e after a call of handler h, and after the run ended.
Called(e, h, payload, ok) ==
    [disp EXCEPT ![e].calls = Append(@, <<h, payload, ok>>)]
Finished(e, h, payload, ok, result, wrote, last) ==
    [disp EXCEPT ![e].calls = Append(@, <<h, payload, ok>>),
                 ![e].runs = Append(@, <<h, result>>),
                 ![e].dead = @ + wrote,
                 ![e].state = IF last THEN "done" ELSE @]

\* _safe_persist: insert_one returns, or raises and the exception is logged
\* inside _safe_persist; "raise" is the exception leaving it, which the code
\* never lets happen.
PersistOutcomeUncaught(up) == IF up THEN "stored" ELSE "raise"
PersistOutcome(up) == IF up THEN "stored" ELSE "logged"

\* One pass of the executor's loop: handler(payload) returns (ok) or raises.
HandlerAttempt(i, ok) ==
    /\ i \in 1..Len(threads)
    /\ threads[i].pc = "run"
    /\ LET th == threads[i]
           h == Head(th.todo)
           res == AttemptResult(ok, th.attempt, cfg.retries)
           outcomes == Append(th.outcomes, ok)
           last == Len(th.todo) = 1
       IN
       CASE res = "return_true" ->
              /\ audit' = IF store_up THEN RecordAudit(audit, th.topic, "ok")
                           ELSE audit
              /\ lastRun' = RunRecord(th, outcomes, th.sleeps, TRUE, <<>>)
              /\ threads' = [threads EXCEPT ![i] = AfterRun(th)]
              /\ disp' = Finished(th.eid, h, th.payload, ok, TRUE, 0, last)
              /\ UNCHANGED <<dlq, clock>>
         [] res = "dead_letter" /\ PersistOutcome(store_up) = "stored" ->
              /\ dlq' = Append(dlq, DeadLetterDoc(th.topic, th.payload, h,
                                                  th.backend, th.attempt + 1,
                                                  clock))
              /\ clock' = clock + 1
              /\ audit' = RecordAudit(audit, th.topic, "dead_lettered")
              /\ lastRun' = RunRecord(th, outcomes, th.sleeps, FALSE,
                                      <<Len(dlq) + 1>>)
              /\ threads' = [threads EXCEPT ![i] = AfterRun(th)]
              /\ disp' = Finished(th.eid, h, th.payload, ok, FALSE, 1, last)
         [] res = "dead_letter" /\ PersistOutcome(store_up) = "logged" ->
              \* neither the dead letter nor the audit document is written
              /\ clock' = clock + 1
              /\ lastRun' = RunRecord(th, outcomes, th.sleeps, FALSE, <<>>)
              /\ threads' = [threads EXCEPT ![i] = AfterRun(th)]
              /\ disp' = Finished(th.eid, h, th.payload, ok, FALSE, 0, last)
              /\ UNCHANGED <<dlq, audit>>
         [] res = "retry" ->
              LET sleeps == SleepsAfterRetry(th.sleeps, cfg.delay_ms, th.attempt) IN
              IF th.attempt + 1 > cfg.retries
              THEN \* range(retries + 1) is exhausted: the final return False
                   /\ lastRun' = RunRecord(th, outcomes, sleeps, FALSE, <<>>)
                   /\ threads' = [threads EXCEPT ![i] = AfterRun(th)]
                   /\ disp' = Finished(th.eid, h, th.payload, ok, FALSE, 0, last)
                   /\ UNCHANGED <<dlq, clock, audit>>
              ELSE /\ threads' = [threads EXCEPT ![i] =
                                      [th EXCEPT !.attempt = @ + 1,
                                                 !.outcomes = outcomes,
                                                 !.sleeps = sleeps]]
                   /\ disp' = Called(th.eid, h, th.payload, ok)
                   /\ UNCHANGED <<dlq, clock, audit, lastRun>>
         [] OTHER ->
              \* an exception leaves the executor: _worker_loop has no except
              \* clause and its thread ends; _consumer_loop catches it per record
              /\ threads' = IF th.backend = "memory" THEN RemoveAt(threads, i)
                            ELSE [threads EXCEPT ![i] = IdleThread(th.backend)]
              /\ disp' = [Called(th.eid, h, th.payload, ok) EXCEPT
                              ![th.eid].state = "aborted"]
              /\ UNCHANGED <<dlq, clock, audit, lastRun>>
    /\ UNCHANGED <<cfg, store_up, replays, race, lastCreate, lastStatus, lastList, lastEmit, lastScan, auth, app, event_bus_instance, event_subscriptions, handlers,
                   queue, running, kafka, nextEid, pend, batch, budget, sent,
                   lastPublish, lastReplay, lastBatch, lastStart>>

-----------------------------------------------------------------------------
\* The producers around the bus: the scheduler's data refresh event and the
\* alert scan.

\* Times are in microseconds; int(seconds * 1000) truncates towards zero.
TruncMs(us) == IF us >= 0 THEN us \div 1000 ELSE 0 - ((0 - us) \div 1000)

\* duration_ms = max(0, int((finished_at - started_at).total_seconds() * 1000))
DurationMsSigned(started_at, finished_at) == TruncMs(finished_at - started_at)
DurationMs(started_at, finished_at) == Max(0, TruncMs(finished_at - started_at))

\* The payload _emit_data_refresh_event builds.
RefreshPayload(dataset, ticker, status, cik, error, started_at, finished_at) ==
    [dataset |-> dataset, ticker |-> ticker, status |-> status, cik |-> cik,
     error |-> error, duration_ms |-> DurationMs(started_at, finished_at),
     started_at |-> started_at, finished_at |-> finished_at,
     source |-> "scheduler"]

\* _emit_data_refresh_event: nothing when ENABLE_DATA_REFRESH_EVENTS is false;
\* otherwise one publish_event, which returns or raises (publish), inside
\* try / except Exception.
EmitDataRefreshEvent(enabled, dataset, ticker, status, cik, error, started_at, finished_at, publish) ==
    /\ lastEmit' =
           [done |-> TRUE, enabled |-> enabled,
            calls |-> IF enabled
                      THEN << [topic |-> "data.refresh.completed.v1",
                               key |-> ticker,
                               payload |-> RefreshPayload(dataset, ticker,
                                               status, cik, error, started_at,
                                               finished_at)] >>
                      ELSE <<>>,
            raised |-> FALSE, publish |-> publish,
            started_at |-> started_at, finished_at |-> finished_at]
    /\ UNCHANGED <<busVars, lastList, lastScan, auth>>

\* _scan_rule raising, among the numbers of events it may return.
ScanRaises == -1

\* The sum of what _scan_rule returned for the rules it did not raise for.
RECURSIVE SumGenerated(_)
SumGenerated(outcomes) ==
    IF outcomes = <<>> THEN 0
    ELSE (IF Head(outcomes) = ScanRaises THEN 0 ELSE Head(outcomes))
         + SumGenerated(Tail(outcomes))

\* run_alert_scan_for_user for a user whose active rules make _scan_rule
\* return or raise as outcomes says: it returns (generated, len(rules)) and
\* calls nothing else.
RunAlertScanForUser(outcomes, publish_returns) ==
    /\ lastScan' = [done |-> TRUE, generated |-> SumGenerated(outcomes),
                    total_active_rules |-> Len(outcomes),
                    publishes |-> 0, fallbacks |-> 0,
                    publish_returns |-> publish_returns]
    /\ UNCHANGED <<busVars, lastList, lastEmit, auth>>

-----------------------------------------------------------------------------
\* The token endpoints of the auth router: /auth/token, /auth/refresh and
\* /auth/logout, over the users' documents.  Times are in ticks of the clock.

\* The calls of the endpoints and the ticks of the clock in one behaviour.
AuthOps == 4
MaxTicks == 3

\* ACCESS_TOKEN_EXPIRE_MINUTES and REFRESH_TOKEN_EXPIRE_DAYS in ticks: an
\* access token expires before the refresh token issued with it, and both
\* within MaxTicks.
AccessLifetime == 1
RefreshLifetime == 2

\* hash_refresh_token_id: the SHA-256 digest of the token id.
HashJti(jti) == <<"sha256", jti>>

\* decode_jwt_token: the payload of a token this service signed that has not
\* expired; None (FALSE) for anything else.  Token 0 is a string that is no
\* such token.
DecodeJwt(a, k) ==
    /\ k \in 1..Len(a.tokens)
    /\ a.tokens[k].exp >= a.now

\* decode_access_token, decode_refresh_token
DecodeAccessToken(a, k) == DecodeJwt(a, k) /\ a.tokens[k].kind # "refresh"
DecodeRefreshToken(a, k) ==
    /\ DecodeJwt(a, k)
    /\ a.tokens[k].kind = "refresh"
    /\ a.tokens[k].jti # 0

\* _persist_refresh_token: the $set on the user's document.
PersistRefreshTokenIfAbsent(doc, jti, exp) ==
    IF doc.hash = NoHash THEN [hash |-> HashJti(jti), exp |-> exp]
    ELSE [doc EXCEPT !.exp = exp]
PersistRefreshToken(doc, jti, exp) == [hash |-> HashJti(jti), exp |-> exp]

\* logout: the $unset on the user's document.
LogoutUnsetExpiryOnly(doc) == [doc EXCEPT !.exp = NoTime]
LogoutUnset(doc) == [hash |-> NoHash, exp |-> NoTime]

\* _issue_tokens_for_user: an access token and a refresh token with a fresh
\* token id, whose hash is stored.
IssueTokensForUser(a, u) ==
    LET jti == a.nextJti + 1
        exp == a.now + RefreshLifetime
    IN [a EXCEPT
          !.nextJti = jti,
          !.tokens = @ \o << [kind |-> "access", sub |-> u, jti |-> 0,
                              exp |-> a.now + AccessLifetime,
                              redeemed |-> FALSE],
                             [kind |-> "refresh", sub |-> u, jti |-> jti,
                              exp |-> exp, redeemed |-> FALSE] >>,
          !.users[u] = PersistRefreshToken(@, jti, exp)]

\* refresh_access_token up to _issue_tokens_for_user: 200 when the presented
\* token passes every check, else 401.
RefreshStatus(a, k) ==
    IF ~DecodeRefreshToken(a, k) THEN 401
    ELSE LET doc == a.users[a.tokens[k].sub] IN
         IF doc.hash = NoHash \/ doc.exp = NoTime
            \/ HashJti(a.tokens[k].jti) # doc.hash
         THEN 401
         ELSE IF doc.exp < a.now THEN 401
         ELSE 200

\* What the last call of a token endpoint was given and answered, with the
\* user's stored hash and logged-out state before it.
LastCall(a, op, u, k, st, issued) ==
    [op |-> op, user |-> u, presented |-> k, status |-> st, issued |-> issued,
     prev_hash |-> IF u \in Users THEN a.users[u].hash ELSE NoHash,
     was_logged_out |-> IF u \in Users THEN a.logged_out[u] ELSE FALSE]

\* POST /auth/token with login_type normal, the password right or wrong.
Login(u, password_ok) ==
    /\ auth.ops < AuthOps
    /\ auth' =
         IF password_ok
         THEN [IssueTokensForUser(auth, u) EXCEPT
                  !.ops = @ + 1,
                  !.logged_out[u] = FALSE,
                  !.last = LastCall(auth, "login", u, 0, 200,
                                    Len(auth.tokens) + 2)]
         ELSE [auth EXCEPT !.ops = @ + 1,
                           !.last = LastCall(auth, "login", u, 0, 401, 0)]
    /\ UNCHANGED <<busVars, lastList, lastEmit, lastScan>>

\* POST /auth/refresh presenting token k.
RefreshAccessToken(k) ==
    /\ auth.ops < AuthOps
    /\ k \in 0..Len(auth.tokens)
    /\ LET st == RefreshStatus(auth, k)
           u == IF k = 0 THEN "" ELSE auth.tokens[k].sub
       IN
       auth' =
         IF st = 200
         THEN [IssueTokensForUser(auth, u) EXCEPT
                  !.ops = @ + 1,
                  !.tokens[k].redeemed = TRUE,
                  !.last = LastCall(auth, "refresh", u, k, 200,
                                    Len(auth.tokens) + 2)]
         ELSE [auth EXCEPT !.ops = @ + 1,
                           !.last = LastCall(auth, "refresh", u, k, st, 0)]
    /\ UNCHANGED <<busVars, lastList, lastEmit, lastScan>>

\* POST /auth/logout with token k as the bearer token.
Logout(k) ==
    /\ auth.ops < AuthOps
    /\ k \in 0..Len(auth.tokens)
    /\ auth' =
         IF DecodeAccessToken(auth, k)
         THEN LET u == auth.tokens[k].sub IN
              [auth EXCEPT !.ops = @ + 1,
                           !.users[u] = LogoutUnset(@),
                           !.logged_out[u] = TRUE,
                           !.last = LastCall(auth, "logout", u, k, 200, 0)]
         ELSE [auth EXCEPT !.ops = @ + 1,
                           !.last = LastCall(auth, "logout", "", k, 401, 0)]
    /\ UNCHANGED <<busVars, lastList, lastEmit, lastScan>>

\* POST /auth/refresh served by worker processes that share the database:
\* find_one of the user's document and update_one of the new hash are two
\* operations on the store, and another worker's may come between them.
Workers == {"w1", "w2"}

\* refresh_access_token up to the last check (lines 258-281): the token is
\* decoded and compared with the document find_one returned.
RefreshLookup(w, k) ==
    /\ auth.ops < AuthOps
    /\ auth.reqs[w].pc = "idle"
    /\ k \in 0..Len(auth.tokens)
    /\ LET st == RefreshStatus(auth, k)
           u == IF k = 0 THEN "" ELSE auth.tokens[k].sub
       IN
       auth' =
         IF st = 200
         THEN [auth EXCEPT !.ops = @ + 1,
                           !.reqs[w] = [pc |-> "checked", presented |-> k]]
         ELSE [auth EXCEPT !.ops = @ + 1,
                           !.last = LastCall(auth, "refresh", u, k, st, 0)]
    /\ UNCHANGED <<busVars, lastList, lastEmit, lastScan>>

\* refresh_access_token, line 283: _issue_tokens_for_user creates the tokens,
\* stores the new hash with update_one, and the request is answered 200.
RefreshIssue(w) ==
    /\ auth.reqs[w].pc = "checked"
    /\ LET k == auth.reqs[w].presented
           u == auth.tokens[k].sub
       IN
       auth' = [IssueTokensForUser(auth, u) EXCEPT
                   !.tokens[k].redeemed = TRUE,
                   !.redemptions = Append(@, k),
                   !.reqs[w] = [pc |-> "idle", presented |-> 0],
                   !.last = LastCall(auth, "refresh", u, k, 200,
                                     Len(auth.tokens) + 2)]
    /\ UNCHANGED <<busVars, lastList, lastEmit, lastScan>>

\* Time passes.
Tick ==
    /\ auth.now < MaxTicks
    /\ auth' = [auth EXCEPT !.now = @ + 1]
    /\ UNCHANGED <<busVars, lastList, lastEmit, lastScan>>

-----------------------------------------------------------------------------
\* Specifications.  Each one is the bus under one configuration, with the
\* calls its environment makes; `budget` bounds how many of each it makes.

PublishPayloads == {"p1"}
BatchLimits == {1, 20}

Budget(sub, st, sp, pub, rep, bat) ==
    [subscribe |-> sub, start |-> st, stop |-> sp, publish |-> pub,
     replay |-> rep, batch |-> bat]

Config(backend, retries, delay_ms, max_queue_size) ==
    [backend |-> backend, retries |-> retries, delay_ms |-> delay_ms,
     max_queue_size |-> max_queue_size, audit |-> FALSE, raw |-> NoEnv]

\* The configuration that the environment `raw` gives the embedded backend.
ConfigFromEnv(raw) ==
    [backend |-> "memory",
     retries |-> MaxHandlerRetries(raw.retries),
     delay_ms |-> HandlerRetryBackoffMs(raw.backoff),
     max_queue_size |-> MemoryQueueMax(raw.queue_max).value,
     audit |-> FALSE, raw |-> raw]

\* Spec: the embedded backend behind the facade, with its whole life cycle.
Init ==
    InitState(Config("memory", 1, DefaultBackoff, DefaultQueueMax), <<>>,
              Budget(MaxSubscribes, MaxStarts, MaxStops, MaxPublishes, 0, 0))

Next ==
    \/ \E t \in {"a", " a "}, h \in Handlers : SubscribeEvent(t, h)
    \/ StartMemory
    \/ StopEventBus
    \/ \E t \in {"a", " a "}, p \in PublishPayloads : PublishEvent(t, p)
    \/ PublishEnd
    \/ \E i \in 1..Len(threads) : WorkerGet(i)
    \/ \E i \in 1..Len(threads) : WorkerExit(i)
    \/ \E i \in 1..Len(threads), ok \in BOOLEAN : HandlerAttempt(i, ok)

Spec == Init /\ [][Next]_vars

-----------------------------------------------------------------------------
\* SpecExec: the executor under every effective retry count (0..8) and with and
\* without a backoff: one handler behind a started embedded backend.

ExecPublishes == 2

InitExec ==
    \E r \in 0..MaxRetriesCap, d \in {0, DefaultBackoff} :
        InitState(Config("memory", ClampRetries(r), ClampBackoff(d),
                         DefaultQueueMax),
                  <<>>, Budget(1, 1, 0, ExecPublishes, 0, 0))

NextExec ==
    \/ SubscribeEvent("a", "h1")
    \/ StartMemory
    \/ PublishEvent("a", "p1")
    \/ PublishEnd
    \/ \E i \in 1..Len(threads) : WorkerGet(i)
    \/ \E i \in 1..Len(threads), ok \in BOOLEAN : HandlerAttempt(i, ok)

SpecExec == InitExec /\ [][NextExec]_vars

-----------------------------------------------------------------------------
\* SpecLive: the embedded backend with its life cycle, under the scheduling the
\* threads get: a publish that has passed its running check reaches its
\* put_nowait, a dispatch thread that can dequeue does, and a handler call ends
\* (by returning or by raising).

LivePublishes == 2
LiveSubscribes == 1

InitLive ==
    InitState(Config("memory", 1, DefaultBackoff, DefaultQueueMax), <<>>,
              Budget(LiveSubscribes, MaxStarts, MaxStops, LivePublishes, 0, 0))

NextLive ==
    \/ \E t \in {"a", " a "}, h \in Handlers : SubscribeEvent(t, h)
    \/ StartMemory
    \/ StopEventBus
    \/ \E t \in {"a", " a "}, p \in PublishPayloads : PublishEvent(t, p)
    \/ PublishEnd
    \/ \E i \in 1..Len(threads) : WorkerGet(i)
    \/ \E i \in 1..Len(threads) : WorkerExit(i)
    \/ \E i \in 1..Len(threads), ok \in BOOLEAN : HandlerAttempt(i, ok)

SpecLive ==
    /\ InitLive
    /\ [][NextLive]_vars
    /\ WF_vars(PublishEnd)
    /\ WF_vars(\E i \in 1..Len(threads) : WorkerGet(i))
    /\ WF_vars(\E i \in 1..Len(threads), ok \in BOOLEAN : HandlerAttempt(i, ok))

-----------------------------------------------------------------------------
\* SpecQueue: producers filling the embedded backend's queue, for configured
\* sizes below, at and above the constructor's floor.  No handler is
\* subscribed, so a dequeued envelope is dispatched to nobody.

SmallQueueMax == 1
QueueStarts == 1
QueueSizes == {SmallQueueMax, MinQueueCapacity, MinQueueCapacity + QueueOverfill}

InitQueue ==
    \E m \in QueueSizes :
        InitState(Config("memory", 1, DefaultBackoff, m), <<>>,
                  Budget(0, QueueStarts, 0,
                         QueueCapacity(m) + QueueOverfill, 0, 0))

NextQueue ==
    \/ StartMemory
    \/ PublishEvent("a", "p1")
    \/ PublishEnd
    \/ \E i \in 1..Len(threads) : WorkerGet(i)

SpecQueue == InitQueue /\ [][NextQueue]_vars

-----------------------------------------------------------------------------
\* SpecFallback: the broker backend is configured; its start() either returns
\* or raises, and in the second case start_event_bus falls back to a fresh
\* embedded backend.  Handlers are subscribed through the facade, with blank
\* topics among the inputs.

FallbackSubscribes == 2
FallbackPublishes == 1
FallbackTopics == {"a", ""}

InitFallback ==
    InitState(Config("kafka", 0, DefaultBackoff, DefaultQueueMax), <<>>,
              Budget(FallbackSubscribes, MaxStarts, 0, FallbackPublishes, 0, 0))

NextFallback ==
    \/ \E t \in FallbackTopics, h \in Handlers : SubscribeEvent(t, h)
    \/ StartKafka
    \/ StartFallback
    \/ \E t \in {"a"}, p \in PublishPayloads : PublishEvent(t, p)
    \/ PublishEnd
    \/ \E i \in 1..Len(threads) : WorkerGet(i)
    \/ \E i \in 1..Len(threads) : KafkaPoll(i)
    \/ \E i \in 1..Len(threads), ok \in BOOLEAN : HandlerAttempt(i, ok)

SpecFallback == InitFallback /\ [][NextFallback]_vars

-----------------------------------------------------------------------------
\* SpecReplay: the admin replay operations on a store that a previous run of
\* the process left behind; a replay's publish is refused before the embedded
\* backend is started and accepted after.

\* A stored dead-letter document of handler h1; one that was replayed before
\* carries the time of that replay.
StoredDoc(topic, payload, status, retry_count, created_at) ==
    [DeadLetterDoc(topic, payload, "h1", "memory", 1, created_at) EXCEPT
         !.status = status,
         !.retry_count = retry_count,
         !.last_retry_at = IF retry_count > 0 THEN created_at ELSE NoTime]

\* One document of each status, the oldest one last.
FilterStore ==
    << StoredDoc("a", "p1", "retry_failed", 1, 3),
       StoredDoc("a", "p2", "failed", 0, 2),
       StoredDoc("a", "p1", "republished", 1, 1) >>

\* Documents whose topic is blank or whose payload is not a dict.
MalformedStore ==
    << StoredDoc("", "p1", "failed", 0, 1),
       StoredDoc("a", "str", "failed", 0, 2),
       StoredDoc("a", "missing", "retry_failed", 1, 3) >>

ReplayStores == {FilterStore, MalformedStore}

InitReplay ==
    \E store \in ReplayStores :
        InitState(Config("memory", 0, DefaultBackoff, DefaultQueueMax), store,
                  Budget(1, 1, 0, 0, MaxReplays, MaxBatches))

NextReplay ==
    \/ SubscribeEvent("a", "h1")
    \/ StartMemory
    \/ \E id \in 0..(Len(dlq) + 1) : RetryDeadLetter(id)
    \/ \E limit \in BatchLimits, include \in BOOLEAN : BatchStart(limit, include)
    \/ BatchStep
    \/ BatchReturn
    \/ PublishEnd
    \/ \E i \in 1..Len(threads) : WorkerGet(i)
    \/ \E i \in 1..Len(threads), ok \in BOOLEAN : HandlerAttempt(i, ok)

SpecReplay == InitReplay /\ [][NextReplay]_vars

-----------------------------------------------------------------------------
\* SpecStop: stopping the embedded backend, under the scheduling the threads
\* get, in two configurations: a queue of the smallest capacity that producers
\* fill before stop() (its sentinel then finds the queue full), with no handler
\* subscribed; and the default queue with handlers that return or raise.

StopPublishes == 2
StopCalls == 2

InitStop ==
    \/ InitState(Config("memory", 1, DefaultBackoff, SmallQueueMax), <<>>,
                 Budget(0, QueueStarts, MaxStops,
                        QueueCapacity(SmallQueueMax) + QueueOverfill, 0, 0))
    \/ InitState(Config("memory", 1, DefaultBackoff, DefaultQueueMax), <<>>,
                 Budget(1, MaxStarts, StopCalls, StopPublishes, 0, 0))

NextStop ==
    \/ \E h \in Handlers : SubscribeEvent("a", h)
    \/ StartMemory
    \/ StopEventBus
    \/ PublishEvent("a", "p1")
    \/ PublishEnd
    \/ \E i \in 1..Len(threads) : WorkerGet(i)
    \/ \E i \in 1..Len(threads) : WorkerExit(i)
    \/ \E i \in 1..Len(threads), ok \in BOOLEAN : HandlerAttempt(i, ok)

SpecStop ==
    /\ InitStop
    /\ [][NextStop]_vars
    /\ WF_vars(PublishEnd)
    /\ WF_vars(\E i \in 1..Len(threads) : WorkerGet(i))
    /\ WF_vars(\E i \in 1..Len(threads) : WorkerExit(i))
    /\ WF_vars(\E i \in 1..Len(threads), ok \in BOOLEAN : HandlerAttempt(i, ok))

-----------------------------------------------------------------------------
\* SpecTransport: producers publishing into transports that refuse: the
\* embedded backend not running or with its queue full, the broker backend not
\* running or with the broker failing or not acknowledging a send.

TransportPublishes == 2

InitTransport ==
    \/ InitState(Config("memory", 1, DefaultBackoff, SmallQueueMax), <<>>,
                 Budget(0, QueueStarts, MaxStops,
                        QueueCapacity(SmallQueueMax) + QueueOverfill, 0, 0))
    \/ InitState(Config("kafka", 1, DefaultBackoff, DefaultQueueMax), <<>>,
                 Budget(0, QueueStarts, MaxStops, TransportPublishes, 0, 0))

NextTransport ==
    \/ StartMemory
    \/ StartKafka
    \/ StopEventBus
    \/ PublishEvent("a", "p1")
    \/ PublishEnd
    \/ \E i \in 1..Len(threads) : WorkerGet(i)

SpecTransport == InitTransport /\ [][NextTransport]_vars

-----------------------------------------------------------------------------
\* SpecEnvelope: producers that pass an empty topic among their topics to a
\* running embedded backend with a subscribed handler.

EnvelopePublishes == 3
EnvelopeTopics == {"a", ""}

InitEnvelope ==
    InitState(Config("memory", 0, DefaultBackoff, DefaultQueueMax), <<>>,
              Budget(1, 1, 0, EnvelopePublishes, 0, 0))

NextEnvelope ==
    \/ SubscribeEvent("a", "h1")
    \/ StartMemory
    \/ \E t \in EnvelopeTopics : PublishEvent(t, "p1")
    \/ PublishEnd
    \/ \E i \in 1..Len(threads) : WorkerGet(i)
    \/ \E i \in 1..Len(threads), ok \in BOOLEAN : HandlerAttempt(i, ok)

SpecEnvelope == InitEnvelope /\ [][NextEnvelope]_vars

-----------------------------------------------------------------------------
\* SpecApp: the application's lifespan and the jobs of its scheduler that use
\* the event bus, over a store of dead letters.

AppPublishes == 2
AppBatches == 2
AppBackends == {"memory", "kafka"}

\* lifespan, up to its yield: ensure_indexes(); start_scheduler(), which adds
\* the jobs and starts the scheduler.
LifespanStartup ==
    /\ app.lifespan = "created"
    /\ app' = [lifespan |-> "serving", scheduler |-> TRUE]
    /\ UNCHANGED <<cfg, store_up, replays, race, lastCreate, lastStatus, lastList, lastEmit, lastScan, auth, event_bus_instance, event_subscriptions, handlers,
                   queue, running, threads, kafka, dlq, audit, clock, nextEid,
                   pend, batch, budget, sent, disp, lastRun, lastPublish,
                   lastReplay, lastBatch, lastStart>>

\* lifespan, after its yield: shutdown_scheduler().
LifespanShutdown ==
    /\ app.lifespan = "serving"
    /\ app' = [lifespan |-> "closed", scheduler |-> FALSE]
    /\ UNCHANGED <<cfg, store_up, replays, race, lastCreate, lastStatus, lastList, lastEmit, lastScan, auth, event_bus_instance, event_subscriptions, handlers,
                   queue, running, threads, kafka, dlq, audit, clock, nextEid,
                   pend, batch, budget, sent, disp, lastRun, lastPublish,
                   lastReplay, lastBatch, lastStart>>

\* A data refresh job of the scheduler: _emit_data_refresh_event publishes on
\* the data refresh topic.
ScheduledRefresh(p) ==
    /\ app.scheduler
    /\ PublishEvent("a", p)

\* The dead-letter retry job of the scheduler: run_event_bus_dlq_retry.
ScheduledDlqRetry(limit) ==
    /\ app.scheduler
    /\ BatchStart(limit, TRUE)

InitApp ==
    \E b \in AppBackends :
        InitState(Config(b, 0, DefaultBackoff, DefaultQueueMax), FilterStore,
                  Budget(0, 0, 0, AppPublishes, 0, AppBatches))

NextApp ==
    \/ LifespanStartup
    \/ LifespanShutdown
    \/ \E p \in {"p1", "p2"} : ScheduledRefresh(p)
    \/ \E limit \in BatchLimits : ScheduledDlqRetry(limit)
    \/ BatchStep
    \/ BatchReturn

SpecApp == InitApp /\ [][NextApp]_vars

-----------------------------------------------------------------------------
\* SpecBroker: the broker backend through its life cycle, with handlers
\* subscribed on two topics before start(), while running and after stop().

BrokerSubscribes == 3
BrokerPublishes == 1

InitBroker ==
    InitState(Config("kafka", 0, DefaultBackoff, DefaultQueueMax), <<>>,
              Budget(BrokerSubscribes, MaxStarts, MaxStops, BrokerPublishes,
                     0, 0))

NextBroker ==
    \/ \E t \in Topics : SubscribeEvent(t, "h1")
    \/ StartKafka
    \/ StopEventBus
    \/ \E t \in Topics : PublishEvent(t, "p1")
    \/ \E i \in 1..Len(threads) : KafkaPoll(i)
    \/ \E i \in 1..Len(threads) : KafkaExit(i)
    \/ \E i \in 1..Len(threads), ok \in BOOLEAN : HandlerAttempt(i, ok)

SpecBroker == InitBroker /\ [][NextBroker]_vars

-----------------------------------------------------------------------------
\* SpecAgnostic: the same producers, handlers and handler failures on either
\* backend, with one retry.

AgnosticSubscribes == 2
AgnosticPublishes == 2
AgnosticBackends == {"memory", "kafka"}

InitAgnostic ==
    \E b \in AgnosticBackends :
        InitState(Config(b, 1, DefaultBackoff, DefaultQueueMax), <<>>,
                  Budget(AgnosticSubscribes, 1, 0, AgnosticPublishes, 0, 0))

NextAgnostic ==
    \/ \E h \in Handlers : SubscribeEvent("a", h)
    \/ StartMemory
    \/ StartKafka
    \/ \E p \in {"p1", "p2"} : PublishEvent("a", p)
    \/ PublishEnd
    \/ \E i \in 1..Len(threads) : WorkerGet(i)
    \/ \E i \in 1..Len(threads) : KafkaPoll(i)
    \/ \E i \in 1..Len(threads), ok \in BOOLEAN : HandlerAttempt(i, ok)

SpecAgnostic == InitAgnostic /\ [][NextAgnostic]_vars

-----------------------------------------------------------------------------
\* SpecList: the operator lists the dead letters of a store, between replays
\* that change the records' statuses.

ListReplays == 2
ListLimits == {0, 1, 2, MaxListLimit, MaxListLimit + 1}
ListStatuses ==
    {NoStatus, "", "failed", "FAILED", " failed ", "retry_failed", "republished"}

\* Records that are not stored in the order of their creation.
UnsortedStore ==
    << StoredDoc("a", "p1", "failed", 0, 2),
       StoredDoc("a", "p2", "failed", 0, 3),
       StoredDoc("a", "p1", "retry_failed", 1, 1) >>

InitList ==
    \E store \in {FilterStore, UnsortedStore} :
        InitState(Config("memory", 0, DefaultBackoff, DefaultQueueMax), store,
                  Budget(0, 1, 0, 0, ListReplays, 0))

NextList ==
    \/ \E limit \in ListLimits, status \in ListStatuses :
           ListDeadLetters(limit, status)
    \/ StartMemory
    \/ \E id \in 1..Len(dlq) : RetryDeadLetter(id)
    \/ PublishEnd
    \/ \E i \in 1..Len(threads) : WorkerGet(i)

SpecList == InitList /\ [][NextList]_vars

-----------------------------------------------------------------------------
\* SpecProducers: the ingestion jobs emit data refresh events and the alert
\* scan runs for users with up to two active rules.

MaxRules == 2
EmitTimes == {0, 1500, 5000000}
EmitTickers == {"AAPL", "MSFT"}
ScanOutcomes == {0, 1, 2, ScanRaises}

RuleOutcomes ==
    UNION {[1..n -> ScanOutcomes] : n \in 0..MaxRules}

InitProducers ==
    InitState(Config("memory", 0, DefaultBackoff, DefaultQueueMax), <<>>,
              Budget(0, 0, 0, 0, 0, 0))

NextProducers ==
    \/ \E enabled \in BOOLEAN, ticker \in EmitTickers,
          status \in {"success", "failed"}, s \in EmitTimes, f \in EmitTimes,
          publish \in {"true", "false", "raise"} :
           EmitDataRefreshEvent(enabled, "stock", ticker, status, "none",
                                IF status = "failed" THEN "boom" ELSE "none",
                                s, f, publish)
    \/ \E outcomes \in RuleOutcomes, r \in BOOLEAN :
           RunAlertScanForUser(outcomes, r)

SpecProducers == InitProducers /\ [][NextProducers]_vars

-----------------------------------------------------------------------------
\* SpecAuth: two users log in, refresh and log out, with any token issued so
\* far (or a string that is no token) presented, while time passes.

InitAuth ==
    InitState(Config("memory", 0, DefaultBackoff, DefaultQueueMax), <<>>,
              Budget(0, 0, 0, 0, 0, 0))

NextAuth ==
    \/ \E u \in Users, ok \in BOOLEAN : Login(u, ok)
    \/ \E k \in 0..Len(auth.tokens) : RefreshAccessToken(k)
    \/ \E k \in 0..Len(auth.tokens) : Logout(k)
    \/ Tick

SpecAuth == InitAuth /\ [][NextAuth]_vars

-----------------------------------------------------------------------------
\* SpecLifecycle: every operation of the bus over a store that holds dead
\* letters of an earlier run, one of them malformed: subscribe, start, stop,
\* publish, dispatch with a handler that fails, single and batch replay, list
\* and status.

LifecycleReplays == 1

LifecycleStore ==
    << StoredDoc("", "p1", "failed", 0, 1),
       StoredDoc("a", "p2", "retry_failed", 1, 2) >>

InitLifecycle ==
    \/ InitState(Config("memory", 0, DefaultBackoff, DefaultQueueMax),
                 LifecycleStore, Budget(1, 1, 1, 1, LifecycleReplays, 0))
    \/ InitState(Config("memory", 0, DefaultBackoff, DefaultQueueMax),
                 LifecycleStore, Budget(0, 1, 0, 0, LifecycleReplays, 1))

NextLifecycle ==
    \/ SubscribeEvent("a", "h1")
    \/ StartMemory
    \/ StopEventBus
    \/ PublishEvent("a", "p1")
    \/ PublishEnd
    \/ \E i \in 1..Len(threads) : WorkerGet(i)
    \/ \E i \in 1..Len(threads) : WorkerExit(i)
    \/ \E i \in 1..Len(threads), ok \in BOOLEAN : HandlerAttempt(i, ok)
    \/ \E id \in 1..Len(dlq) : RetryDeadLetter(id)
    \/ BatchStart(1, TRUE)
    \/ BatchStep
    \/ BatchReturn
    \/ ~lastList.done /\ ListDeadLetters(1, "failed")
    \/ ~lastStatus.done /\ GetEventBusStatus

SpecLifecycle == InitLifecycle /\ [][NextLifecycle]_vars

-----------------------------------------------------------------------------
\* SpecConfig: the embedded backend under an environment whose three numeric
\* variables are unset, blank, integers inside and outside their ranges, or
\* texts that are no integers.  The facade is used once the backend exists.

ConfigPublishes == 1

RetriesTexts == {Unset, "", " 3 ", "-1", "0", "9", "abc"}
BackoffTexts == {Unset, "   ", "0", "5001", "-5", "x1"}
QueueMaxTexts == {Unset, "1", " 3 ", "", "abc"}

InitConfig ==
    \E r \in RetriesTexts, d \in BackoffTexts, q \in QueueMaxTexts :
        InitState(ConfigFromEnv([retries |-> r, backoff |-> d, queue_max |-> q]),
                  <<>>, Budget(1, 1, 0, ConfigPublishes, 0, 0))

NextConfig ==
    \/ CreateEventBus
    \/ event_bus_instance # "none" /\ SubscribeEvent("a", "h1")
    \/ event_bus_instance # "none" /\ StartMemory
    \/ event_bus_instance # "none" /\ PublishEvent("a", "p1")
    \/ PublishEnd
    \/ \E i \in 1..Len(threads) : WorkerGet(i)
    \/ \E i \in 1..Len(threads), ok \in BOOLEAN : HandlerAttempt(i, ok)

SpecConfig == InitConfig /\ [][NextConfig]_vars

-----------------------------------------------------------------------------
\* Properties.

\* The finished executor runs that returned failure, over all envelopes.
RECURSIVE FailedRuns(_)
FailedRuns(e) ==
    IF e = 0 THEN 0
    ELSE FailedRuns(e - 1)
         + Cardinality({k \in 1..Len(disp[e].runs) : ~disp[e].runs[k][2]})

AllRaised(run) == \A k \in 1..Len(run.outcomes) : ~run.outcomes[k]

\* C1: for every effective max-retries value R in 0..8, an executor run in which
\* the handler raised on every call made exactly R+1 calls and then wrote
\* exactly one dead-letter record, with attempts = R+1, status failed and
\* retry_count 0; the store holds one record per exhausted run, so none is
\* written while a run still has attempts left.
ExhaustionWritesOneDeadLetter ==
    /\ cfg.retries \in 0..MaxRetriesCap
    /\ (lastRun.eid # 0 /\ AllRaised(lastRun)) =>
          /\ Len(lastRun.outcomes) = cfg.retries + 1
          /\ ~lastRun.result
          /\ Len(lastRun.dlq) = 1
          /\ LET d == dlq[lastRun.dlq[1]] IN
             /\ d.attempts = cfg.retries + 1
             /\ d.status = "failed"
             /\ d.retry_count = 0
             /\ d.topic = lastRun.topic
             /\ d.payload = lastRun.payload
             /\ d.handler = lastRun.handler
    /\ Len(dlq) = FailedRuns(Len(disp))
    /\ \A i \in 1..Len(threads) :
           threads[i].pc = "run" =>
               /\ Len(threads[i].outcomes) = threads[i].attempt
               /\ threads[i].attempt <= cfg.retries
               /\ disp[threads[i].eid].dead
                      = Cardinality({k \in 1..Len(disp[threads[i].eid].runs) :
                                         ~disp[threads[i].eid].runs[k][2]})

\* C1's case: with the largest retry count, a run has been exhausted.
ExhaustionReached ==
    /\ cfg.retries = MaxRetriesCap
    /\ lastRun.eid # 0
    /\ AllRaised(lastRun)
    /\ Len(lastRun.outcomes) = MaxRetriesCap + 1
    /\ Len(dlq) = 1

\* C4: an executor run in which the handler raised on its first call and
\* returned on its second made exactly these two calls, returned success, wrote
\* no dead-letter record, and waited the base backoff between the calls: one
\* sleep of delay_ms * 2^0 (no sleep at all when the base backoff is 0).
RetryThenSuccess ==
    (lastRun.eid # 0 /\ Len(lastRun.outcomes) >= 2
       /\ ~lastRun.outcomes[1] /\ lastRun.outcomes[2]) =>
        /\ cfg.retries >= 1
        /\ lastRun.outcomes = <<FALSE, TRUE>>
        /\ lastRun.result
        /\ lastRun.dlq = <<>>
        /\ SumSeq(lastRun.sleeps) = cfg.delay_ms
        /\ lastRun.sleeps = IF cfg.delay_ms > 0 THEN <<cfg.delay_ms>> ELSE <<>>
        /\ Len(dlq) = FailedRuns(Len(disp))

\* C4's case: a run failed once, slept the base backoff and then succeeded.
RetryThenSuccessReached ==
    /\ lastRun.eid # 0
    /\ lastRun.outcomes = <<FALSE, TRUE>>
    /\ cfg.delay_ms = DefaultBackoff
    /\ lastRun.sleeps = <<DefaultBackoff>>
    /\ dlq = <<>>

\* The handlers that were run for event e, in order.
RunHandlers(e) == [k \in 1..Len(disp[e].runs) |-> disp[e].runs[k][1]]

\* C2: a handler's exception never leaves the executor: no dispatch is cut
\* short by one, the embedded backend's dispatch thread is alive as long as the
\* backend is running, every run ends with a boolean, and a finished dispatch
\* has run every handler of the topic's snapshot, whatever the earlier ones did.
HandlerFailureAbsorbed ==
    /\ \A e \in 1..Len(disp) :
           /\ disp[e].state # "aborted"
           /\ disp[e].state = "done" => RunHandlers(e) = disp[e].snapshot
           /\ \A k \in 1..Len(disp[e].runs) : disp[e].runs[k][2] \in BOOLEAN
    /\ running => \E i \in 1..Len(threads) : threads[i].backend = "memory"
    /\ \A i \in 1..Len(threads) :
           threads[i].pc = "run" => disp[threads[i].eid].state = "running"

\* C2's case: a handler exhausted its retries, the topic's next handler was run
\* all the same, and so was a later envelope.
FailureThenRestDispatched ==
    \E e \in 1..Len(disp) :
        /\ disp[e].state = "done"
        /\ Len(disp[e].runs) = 2
        /\ ~disp[e].runs[1][2]
        /\ \E f \in (e + 1)..Len(disp) :
               disp[f].state = "done" /\ disp[f].calls # <<>>

\* C6 (as claimed): for a dispatched envelope a handler is run at most once per
\* (topic, handler) pair the facade has recorded for the envelope's topic, so a
\* pair subscribed twice is still run once.
SubscribeTwiceRunsOnce ==
    \A e \in 1..Len(disp) : \A h \in Handlers :
        Cardinality({k \in 1..Len(disp[e].runs) : disp[e].runs[k][1] = h})
            <= Cardinality({p \in Range(event_subscriptions) :
                                Strip(p[1]) = Strip(sent[e].topic) /\ p[2] = h})

\* Envelope e was accepted by put_nowait while the backend was running.
AcceptedRunning(e) ==
    /\ e <= Len(sent)
    /\ sent[e].backend = "memory"
    /\ sent[e].accepted = "yes"
    /\ sent[e].running_at_put

Dispatched(e) == e <= Len(disp) /\ disp[e].state = "done"

\* C3: an envelope accepted by the running embedded backend is eventually
\* dispatched; when its topic had exactly one subscribed handler and that
\* handler's call returned, the dispatch consists of exactly one call, of that
\* handler with the published payload, and no dead-letter record was written.
HappyPathDelivery ==
    /\ \A e \in 1..LivePublishes : AcceptedRunning(e) ~> Dispatched(e)
    /\ [](\A e \in 1..Len(disp) :
              (/\ disp[e].state = "done"
               /\ Len(disp[e].snapshot) = 1
               /\ disp[e].calls # <<>>
               /\ disp[e].calls[1][3]) =>
                  /\ disp[e].calls =
                         << <<disp[e].snapshot[1], sent[e].payload, TRUE>> >>
                  /\ disp[e].dead = 0)
    /\ [](\A e \in 1..Len(disp) :
              Len(disp[e].snapshot) = 1 =>
                  \A k \in 1..Len(disp[e].calls) :
                      /\ disp[e].calls[k][1] = disp[e].snapshot[1]
                      /\ disp[e].calls[k][2] = sent[e].payload)

\* C3's case: an accepted envelope of a topic with one handler was delivered
\* with one successful call, and the store is empty.
HappyPathReached ==
    \E e \in 1..Len(disp) :
        /\ AcceptedRunning(e)
        /\ disp[e].state = "done"
        /\ Len(disp[e].snapshot) = 1
        /\ Len(disp[e].calls) = 1
        /\ disp[e].calls[1][3]
        /\ dlq = <<>>

\* The envelopes in the embedded backend's queue (the stop sentinel is not one).
QueuedEnvelopes == Cardinality({i \in 1..Len(queue) : ~IsNone(queue[i])})

\* The publishes accepted by the embedded backend before the last publish.
AcceptedBeforeLast ==
    Cardinality({e \in 1..Len(sent) :
                     /\ sent[e].accepted = "yes"
                     /\ (lastPublish.eid = 0 \/ e < lastPublish.eid)})

\* The last publish returned with n envelopes accepted before it and none of
\* them dequeued.
PublishedOnto(n) ==
    /\ lastPublish.origin = "api"
    /\ ~pend.active
    /\ AcceptedBeforeLast = n
    /\ lastPublish.undrained

\* C5 as stated, N being the configured queue size: the queue never holds more
\* than N envelopes and the publish after N accepted, undequeued ones fails.
BackpressureAtConfiguredSize ==
    /\ QueuedEnvelopes <= cfg.max_queue_size
    /\ PublishedOnto(cfg.max_queue_size) => ~lastPublish.ok

\* C5, amended: N is the queue's capacity, max(100, configured size).  The
\* queue never holds more than N envelopes, and a publish made when N envelopes
\* have been accepted and none dequeued returns failure.
BackpressureAtCapacity ==
    LET n == Max(MinQueueCapacity, cfg.max_queue_size) IN
    /\ QueuedEnvelopes <= n
    /\ Len(queue) <= n
    /\ PublishedOnto(n) => ~lastPublish.ok

\* C5's case: a publish was refused on a running backend whose queue held as
\* many accepted envelopes as its capacity, for a configured size above the
\* floor.
BackpressureReached ==
    /\ PublishedOnto(cfg.max_queue_size)
    /\ ~lastPublish.ok
    /\ lastPublish.eid # 0
    /\ cfg.max_queue_size > MinQueueCapacity
    /\ QueuedEnvelopes = cfg.max_queue_size

\* The handlers of the recorded pairs whose topic is t, in recording order.
\* SpecRace: the broker backend is configured and its start() raises; one
\* thread calls subscribe_event while another is in start_event_bus, their
\* steps in any order, after handlers were subscribed one call at a time.

RaceSubscribes == 1
RacePublishes == 1
RaceTopics == {"a", "b"}

InitRace ==
    InitState(Config("kafka", 0, DefaultBackoff, DefaultQueueMax), <<>>,
              Budget(RaceSubscribes, 1, 0, RacePublishes, 0, 0))

NextRace ==
    \/ /\ race.s = "idle"
       /\ race.f = "idle"
       /\ \E t \in RaceTopics, h \in Handlers : SubscribeEvent(t, h)
    \/ \E t \in RaceTopics, h \in Handlers : SubscribeAppend(t, h)
    \/ SubscribeGetBus
    \/ SubscribeForward
    \/ StartRaises
    \/ FallbackSwap
    \/ FallbackSubscribe
    \/ FallbackStart
    \/ /\ race.s = "done"
       /\ race.f = "done"
       /\ \E t \in RaceTopics : PublishEvent(t, "p1")
    \/ PublishEnd
    \/ \E i \in 1..Len(threads) : WorkerGet(i)
    \/ \E i \in 1..Len(threads) : HandlerAttempt(i, TRUE)

SpecRace == InitRace /\ [][NextRace]_vars

-----------------------------------------------------------------------------
\* SpecConcurrent: the admin replay and the batch replay run at the same time
\* over a store with a well-formed record and one with a blank topic, while
\* the embedded backend is started and stopped.

ConcurrentReplays == 2
ConcurrentBatches == 1
ConcurrentStore == << StoredDoc("a", "p1", "failed", 0, 1), StoredDoc("", "p2", "retry_failed", 1, 2) >>

InitConcurrent ==
    InitState(Config("memory", 0, DefaultBackoff, DefaultQueueMax),
              ConcurrentStore,
              Budget(0, 1, 1, 0, ConcurrentReplays, ConcurrentBatches))

NextConcurrent ==
    \/ StartMemory
    \/ StopEventBus
    \/ \E id \in 1..Len(dlq) : ReplayBegin("admin", <<id>>)
    \/ \E limit \in 1..Len(dlq) : ReplayBegin("batch", BatchSelect(dlq, limit, TRUE))
    \/ \E r \in Replayers : ReplayFind(r)
    \/ \E r \in Replayers : ReplayPublish(r)
    \/ \E r \in Replayers : ReplayStore(r)

SpecConcurrent == InitConcurrent /\ [][NextConcurrent]_vars

-----------------------------------------------------------------------------
\* SpecRedeliver: a dead letter of handler h1 is in the store; handlers are
\* subscribed, the embedded backend is started, records are replayed and the
\* handlers return or raise for the replayed envelope.

RedeliverSubscribes == 2
RedeliverReplays == 1
RedeliverStore == << StoredDoc("a", "p1", "failed", 0, 1) >>

InitRedeliver ==
    InitState(Config("memory", 0, DefaultBackoff, DefaultQueueMax),
              RedeliverStore,
              Budget(RedeliverSubscribes, 1, 0, 0, RedeliverReplays, 0))

NextRedeliver ==
    \/ \E t \in {"a", "b"}, h \in Handlers : SubscribeEvent(t, h)
    \/ StartMemory
    \/ \E id \in 1..Len(dlq) : RetryDeadLetter(id)
    \/ PublishEnd
    \/ \E i \in 1..Len(threads) : WorkerGet(i)
    \/ \E i \in 1..Len(threads), ok \in BOOLEAN : HandlerAttempt(i, ok)

SpecRedeliver == InitRedeliver /\ [][NextRedeliver]_vars

-----------------------------------------------------------------------------
\* SpecStoreDown: two handlers of one topic return or raise while the store
\* stops accepting writes and accepts them again.

StoreDownPublishes == 2

InitStoreDown ==
    InitState(Config("memory", 0, DefaultBackoff, DefaultQueueMax), <<>>,
              Budget(2, 1, 0, StoreDownPublishes, 0, 0))

NextStoreDown ==
    \/ \E h \in Handlers : SubscribeEvent("a", h)
    \/ StartMemory
    \/ StoreFails
    \/ StoreRecovers
    \/ PublishEvent("a", "p1")
    \/ PublishEnd
    \/ \E i \in 1..Len(threads) : WorkerGet(i)
    \/ \E i \in 1..Len(threads), ok \in BOOLEAN : HandlerAttempt(i, ok)

SpecStoreDown == InitStoreDown /\ [][NextStoreDown]_vars

-----------------------------------------------------------------------------
\* SpecRefreshRace: users log in and two worker processes serve refresh
\* requests presenting any token issued so far, their store operations in any
\* order, while time passes.

InitRefreshRace ==
    InitState(Config("memory", 0, DefaultBackoff, DefaultQueueMax), <<>>,
              Budget(0, 0, 0, 0, 0, 0))

NextRefreshRace ==
    \/ \E u \in Users : Login(u, TRUE)
    \/ \E w \in Workers, k \in 0..Len(auth.tokens) : RefreshLookup(w, k)
    \/ \E w \in Workers : RefreshIssue(w)
    \/ Tick

SpecRefreshRace == InitRefreshRace /\ [][NextRefreshRace]_vars

-----------------------------------------------------------------------------
RECURSIVE RecordedHandlers(_, _)
RecordedHandlers(subs, t) ==
    IF subs = <<>> THEN <<>>
    ELSE IF Strip(Head(subs)[1]) = t
         THEN <<Head(subs)[2]>> \o RecordedHandlers(Tail(subs), t)
         ELSE RecordedHandlers(Tail(subs), t)

\* C7: after a start_event_bus that took the fallback path the active backend
\* is a running embedded backend on which every pair recorded before the start
\* is subscribed, and an envelope it dispatched afterwards was delivered to
\* each recorded handler of its topic.
FallbackPreservesSubscriptions ==
    lastStart.path = "fallback" =>
        /\ event_bus_instance = "memory"
        /\ running
        /\ \A k \in 1..Len(lastStart.recorded) :
               LET t == Strip(lastStart.recorded[k][1])
                   h == lastStart.recorded[k][2]
               IN t \in Topics /\ t # "" /\ h \in Range(handlers[t])
        /\ \A e \in 1..Len(disp) :
               (sent[e].backend = "memory" /\ disp[e].state = "done") =>
                   \A h \in Range(RecordedHandlers(lastStart.recorded,
                                                   Strip(sent[e].topic))) :
                       \E k \in 1..Len(disp[e].calls) : disp[e].calls[k][1] = h

\* A stored document the replay can publish as it is: a topic that is not
\* blank and a payload that is a dict.
WellFormed(doc) == Strip(doc.topic) # "" /\ doc.payload \in DictPayloads

\* The envelope-building publishes made by replays, and the replays begun.
ReplayPublishes == Cardinality({e \in 1..Len(sent) : sent[e].origin # "api"})
ReplaysBegun ==
    lastReplay.n + (IF pend.active /\ pend.origin # "api" THEN 1 ELSE 0)

\* C8: the last replay of an existing, well-formed record made one publish of
\* the record's topic and payload; its ok flag is the publish's result; the
\* record's status is republished when the publish was accepted and
\* retry_failed otherwise; retry_count is one more than before, updated_at and
\* last_retry_at are the time of the replay, and nothing else of the record
\* changed.
SingleReplay ==
    /\ ReplayPublishes <= ReplaysBegun
    /\ (lastReplay.before # <<>> /\ WellFormed(lastReplay.before[1])) =>
           LET b == lastReplay.before[1]
               d == dlq[lastReplay.id]
               e == lastReplay.eid
           IN
           /\ lastReplay.published
           /\ lastReplay.topic = Strip(b.topic)
           /\ lastReplay.payload = b.payload
           /\ e = 0 => ~lastReplay.ok
           /\ e # 0 =>
                  /\ e \in 1..Len(sent)
                  /\ sent[e].origin = lastReplay.origin
                  /\ sent[e].topic = Strip(b.topic)
                  /\ sent[e].payload = b.payload
                  /\ lastReplay.ok <=> (sent[e].accepted = "yes")
           /\ lastReplay.reason =
                  IF lastReplay.ok THEN "republished" ELSE "publish_failed"
           /\ lastReplay.at > b.updated_at
           /\ d = [b EXCEPT
                       !.status = IF lastReplay.ok THEN "republished"
                                  ELSE "retry_failed",
                       !.retry_count = b.retry_count + 1,
                       !.updated_at = lastReplay.at,
                       !.last_retry_at = lastReplay.at]

\* C8's case: a failed record was replayed, the publish was accepted and the
\* record is republished with its count raised.
SingleReplayReached ==
    /\ lastReplay.before # <<>>
    /\ WellFormed(lastReplay.before[1])
    /\ lastReplay.before[1].status = "failed"
    /\ lastReplay.ok
    /\ dlq[lastReplay.id].status = "republished"
    /\ dlq[lastReplay.id].retry_count = 1

\* C9: the last replay of an existing record whose stored payload is not a
\* dict (or is absent) published nothing, returned failure and left the record
\* retry_failed.
MalformedPayloadNotPublished ==
    (lastReplay.before # <<>> /\ ~IsDict(lastReplay.before[1].payload)) =>
        /\ ~lastReplay.published
        /\ ~lastReplay.ok
        /\ lastReplay.reason = "dead_letter_payload_invalid"
        /\ dlq[lastReplay.id].status = "retry_failed"

\* The statuses a batch may select.
Selectable(include_retry_failed) ==
    IF include_retry_failed THEN {"failed", "retry_failed"} ELSE {"failed"}

\* C10: every record a batch selects had status failed (or retry_failed, when
\* include_retry_failed is true) at selection time, never republished; a step
\* of the batch publishes only for the selected record it is at and changes no
\* other record.
BatchReplayFilter ==
    [][ /\ (batch.pc = "idle" /\ batch'.pc = "run") =>
               \A k \in 1..Len(batch'.docs) :
                   /\ dlq[batch'.docs[k]].status \in Selectable(batch'.include)
                   /\ batch'.was[k] = dlq[batch'.docs[k]]
        /\ (Len(sent') > Len(sent) /\ sent'[Len(sent')].origin = "batch") =>
               /\ batch.i \in 1..Len(batch.docs)
               /\ batch.was[batch.i].status \in Selectable(batch.include)
               /\ sent'[Len(sent')].topic = Strip(batch.was[batch.i].topic)
        /\ (lastReplay' # lastReplay /\ lastReplay'.origin = "batch") =>
               /\ batch.i \in 1..Len(batch.docs)
               /\ lastReplay'.id = batch.docs[batch.i]
               /\ batch.was[batch.i].status \in Selectable(batch.include)
               /\ \A j \in 1..Len(dlq) :
                      j # lastReplay'.id => dlq'[j] = dlq[j]
      ]_vars

\* C10's case: a batch without include_retry_failed ran to its end on the
\* store holding one record of each status, with no other replay made; it
\* attempted the failed record only and the other two are as they were.
BatchFilterReached ==
    /\ lastBatch.done
    /\ ~lastBatch.include
    /\ lastBatch.attempted = 1
    /\ budget.replay = MaxReplays
    /\ Len(dlq) >= Len(FilterStore)
    /\ dlq[1] = FilterStore[1]
    /\ dlq[3] = FilterStore[3]
    /\ dlq[2].status = "republished"
    /\ dlq[2].retry_count = 1

\* C11: a finished batch selected at most `limit` records, all eligible at
\* selection time, without repetition, oldest created_at first, and left out
\* an eligible record only when the limit was reached and the record is no
\* older than the selected ones; it replayed one record per position, and its
\* counts are attempted = number selected = republished + retry_failed; when
\* every selected record's publish was accepted (and no other replay came in
\* between) every selected record is republished with retry_count one higher.
BatchSelectionAndCounts ==
    /\ batch.pc # "idle" =>
           /\ batch.i \in 1..(Len(batch.docs) + 1)
           /\ batch.attempted = batch.i - 1
           /\ batch.attempted = batch.republished + batch.retry_failed
    /\ lastBatch.done =>
           LET b == lastBatch
               eligible == {j \in 1..Len(b.store) :
                                b.store[j].status \in Selectable(b.include)}
           IN
           /\ Len(b.docs) <= b.limit
           /\ \A k \in 1..Len(b.docs) :
                  /\ b.docs[k] \in eligible
                  /\ b.was[k] = b.store[b.docs[k]]
           /\ \A k, l \in 1..Len(b.docs) :
                  k < l => /\ b.docs[k] # b.docs[l]
                           /\ b.was[k].created_at <= b.was[l].created_at
           /\ \A j \in eligible \ Range(b.docs) :
                  /\ Len(b.docs) = b.limit
                  /\ \A k \in 1..Len(b.docs) :
                         b.was[k].created_at <= b.store[j].created_at
           /\ b.attempted = Len(b.docs)
           /\ b.attempted = b.republished + b.retry_failed
           /\ (b.republished = b.attempted /\ lastReplay.n = b.n0 + b.attempted) =>
                  \A k \in 1..Len(b.docs) :
                      /\ dlq[b.docs[k]].status = "republished"
                      /\ dlq[b.docs[k]].retry_count = b.was[k].retry_count + 1

\* C11's case: a batch with include_retry_failed selected two records, the one
\* created first at the head although it is stored second, every publish was
\* accepted and both records are republished.
BatchCountsReached ==
    /\ lastBatch.done
    /\ lastBatch.include
    /\ lastBatch.docs = <<2, 1>>
    /\ lastBatch.attempted = 2
    /\ lastBatch.republished = 2
    /\ lastReplay.n = lastBatch.n0 + 2
    /\ dlq[1].status = "republished"
    /\ dlq[1].retry_count = 2
    /\ dlq[2].status = "republished"

DeadLetterStatuses == {"failed", "republished", "retry_failed"}

\* C12: every record's status is failed, republished or retry_failed; a record
\* enters the store as failed with no replay counted; a record a replay has
\* been applied to is republished or retry_failed, stays out of failed in every
\* later step, and a step that changes a record (a replay, of a republished
\* record too) leaves it republished or retry_failed.
DeadLetterStateMachine ==
    /\ [](\A j \in 1..Len(dlq) :
              /\ dlq[j].status \in DeadLetterStatuses
              /\ dlq[j].retry_count > 0 => dlq[j].status # "failed")
    /\ [][ /\ Len(dlq') >= Len(dlq)
           /\ \A j \in (Len(dlq) + 1)..Len(dlq') :
                  dlq'[j].status = "failed" /\ dlq'[j].retry_count = 0
           /\ \A j \in 1..Len(dlq) :
                  /\ dlq[j].status # "failed" => dlq'[j].status # "failed"
                  /\ dlq'[j] # dlq[j] =>
                         /\ dlq'[j].status \in {"republished", "retry_failed"}
                         /\ dlq'[j].retry_count = dlq[j].retry_count + 1
         ]_vars

\* C12's case: a republished record was replayed again and is republished or
\* retry_failed, while a record created by the executor in this run is failed.
StateMachineReached ==
    /\ lastReplay.before # <<>>
    /\ lastReplay.before[1].status = "republished"
    /\ dlq[lastReplay.id].status \in {"republished", "retry_failed"}
    /\ dlq[lastReplay.id].retry_count = lastReplay.before[1].retry_count + 1
    /\ \E j \in 1..Len(dlq) :
           /\ dlq[j].status = "failed"
           /\ dlq[j].created_at >= StoreClock(FilterStore)

\* The envelopes the embedded backend accepted, by event id (ids follow the
\* order of the put_nowait calls).
AcceptedByMemory ==
    {e \in 1..Len(sent) : sent[e].backend = "memory" /\ sent[e].accepted = "yes"}

\* The handlers of a sequence of runs <<handler, result>>.
RunsHandlers(runs) == [k \in 1..Len(runs) |-> runs[k][1]]

\* C13: of two accepted envelopes the later one is not taken up by a dispatch
\* loop before every handler of the earlier one has finished, and the handlers
\* run for an envelope are, in order, the handlers registered for its topic.
EnqueueOrderPreserved ==
    /\ \A e1, e2 \in AcceptedByMemory :
           (e1 < e2 /\ disp[e2].state # "none") => disp[e1].state = "done"
    /\ \A e \in AcceptedByMemory :
           /\ Len(disp[e].runs) <= Len(disp[e].snapshot)
           /\ RunsHandlers(disp[e].runs) =
                  SubSeq(disp[e].snapshot, 1, Len(disp[e].runs))
           /\ disp[e].state = "done" =>
                  Len(disp[e].runs) = Len(disp[e].snapshot)

\* The dispatch loops of the embedded backend that are alive.
LiveWorkers == {i \in 1..Len(threads) : threads[i].backend = "memory"}

\* C14: at most one dispatch loop of the embedded backend is alive.
AtMostOneDispatchLoop == Cardinality(LiveWorkers) <= 1

\* C15: when the backend stays stopped from some point on, every dispatch loop
\* has exited from some point on; and a stop() that finds the backend not
\* running changes nothing of it.
StopShutsLoopDown ==
    /\ <>[](~running) => <>[](LiveWorkers = {})
    /\ [][ (budget'.stop = budget.stop - 1 /\ ~running) =>
               /\ running' = running
               /\ queue' = queue
               /\ threads' = threads
               /\ handlers' = handlers
         ]_vars

\* C15's case: stop() has cleared the flag of a running backend whose queue
\* was full, so no sentinel is in the queue, and the loop is still alive.
StoppedWithFullQueue ==
    /\ ~running
    /\ LiveWorkers # {}
    /\ Len(queue) = Capacity
    /\ QueuedEnvelopes = Capacity
    /\ budget.stop < MaxStops

\* C16: a publish that found the embedded backend not running returned
\* failure and built no envelope; the step in which it returned left the queue
\* and every dispatch as they were; and every envelope that was ever enqueued
\* or dispatched comes from a publish that found the backend running.
PublishWhenNotRunning ==
    /\ [](/\ (lastPublish.bus = "memory" /\ ~lastPublish.found_running) =>
                 ~lastPublish.ok /\ lastPublish.eid = 0
          /\ \A e \in 1..Len(sent) :
                 sent[e].backend = "memory" => sent[e].running_at_call
          /\ \A k \in 1..Len(queue) :
                 ~IsNone(queue[k]) => sent[queue[k].event_id].running_at_call)
    /\ [][ (/\ lastPublish' # lastPublish
            /\ lastPublish'.bus = "memory"
            /\ ~lastPublish'.found_running) =>
               /\ queue' = queue
               /\ sent' = sent
               /\ disp' = disp
               /\ threads' = threads
         ]_vars

\* C16's case: a publish on a stopped backend (and one on a backend never
\* started before that) returned failure, with the earlier accepted envelope
\* still the only one there is.
NotRunningPublishReached ==
    /\ lastPublish.origin = "api"
    /\ lastPublish.bus = "memory"
    /\ ~lastPublish.found_running
    /\ ~lastPublish.ok
    /\ ~running
    /\ budget.stop < MaxStops
    /\ Len(sent) = 1

TransportFailures ==
    {"queue_full", "not_running", "send_error", "timeout_lost",
     "timeout_delivered"}

\* C17: no publish raised; a publish that met a full queue, a backend not
\* running, a send error or a missing acknowledgment returned false.
TransportFailureReturnsFalse ==
    lastPublish.origin # "" =>
        /\ ~lastPublish.raised
        /\ lastPublish.cause \in TransportFailures => ~lastPublish.ok
        /\ lastPublish.cause \notin TransportFailures =>
               lastPublish.cause \in {"enqueued", "acked"} /\ lastPublish.ok

\* C17's case: the broker failed a send of the running broker backend and the
\* publish returned false.
SendErrorReturnedFalse ==
    /\ lastPublish.bus = "kafka"
    /\ lastPublish.cause = "send_error"
    /\ lastPublish.found_running
    /\ ~lastPublish.ok
    /\ ~lastPublish.raised

\* C18: a publish with an empty topic raises, and no envelope with an empty
\* topic is accepted or is in the queue.
EmptyTopicRejected ==
    /\ (lastPublish.origin # "" /\ lastPublish.found_running
            /\ lastPublish.topic = "") => lastPublish.raised
    /\ \A e \in 1..Len(sent) : sent[e].topic = "" => sent[e].accepted # "yes"
    /\ \A k \in 1..Len(queue) : ~IsNone(queue[k]) => queue[k].topic # ""

\* The dispatch loops of the embedded backend that are inside a handler.
InHandler ==
    {i \in 1..Len(threads) : threads[i].backend = "memory" /\ threads[i].pc = "run"}

\* C19: at most one handler invocation of the embedded backend is in progress
\* at any time (handlers run only in its dispatch loops, one at a time).
OneHandlerAtATime == Cardinality(InHandler) <= 1

\* C20: while the application is serving the event bus is running, and a
\* publish made by a scheduled job finds the backend running.
BusLifecycleTiedToApplication ==
    app.lifespan = "serving" =>
        /\ BackendRunning
        /\ lastPublish.origin # "" => lastPublish.found_running

\* The consumer threads of the broker backend that are alive.
KafkaThreads == {i \in 1..Len(threads) : threads[i].backend = "kafka"}

\* C21: when the construction of the producer or of the consumer fails in the
\* broker backend's start(), start() raises, the backend is not running, every
\* client it constructed is closed, both client references are reset and no
\* consumer thread exists.
KafkaStartFailureCleansUp ==
    lastStart.path = "fallback" =>
        /\ lastStart.backend.raised
        /\ ~lastStart.backend.running
        /\ lastStart.backend.closed = lastStart.backend.constructed
        /\ ~lastStart.backend.producer /\ ~lastStart.backend.consumer
        /\ ~lastStart.backend.thread
        /\ ~kafka.running /\ ~kafka.producer /\ ~kafka.consumer
        /\ KafkaThreads = {}

\* The consumer's construction failed after the producer was constructed.
ConsumerConstructionFailed ==
    /\ lastStart.path = "fallback"
    /\ lastStart.backend.constructed = {"producer"}
    /\ lastStart.backend.closed = {"producer"}

\* The topics registered on the broker backend.
RegisteredTopics == {x \in Topics : kafka.handlers[x] # <<>>}

RECURSIVE Policy(_, _, _, _, _)
Policy(hs, oks, retries, k, attempt) ==
    IF hs = <<>> \/ k > Len(oks) THEN [calls |-> <<>>, runs |-> <<>>]
    ELSE LET h == Head(hs)
             ends == oks[k] \/ attempt >= retries
             rest == IF ends THEN Policy(Tail(hs), oks, retries, k + 1, 0)
                     ELSE Policy(hs, oks, retries, k + 1, attempt + 1)
         IN [calls |-> <<h>> \o rest.calls,
             runs |-> IF ends THEN << <<h, oks[k]>> >> \o rest.runs
                      ELSE rest.runs]

\* The failed runs of the envelopes up to e, oldest first, each with what its
\* dead-letter record holds.
RECURSIVE FailedRunList(_)
FailedRunList(e) ==
    IF e = 0 THEN <<>>
    ELSE FailedRunList(e - 1) \o
         SelectSeq([k \in 1..Len(disp[e].runs) |->
                        [topic |-> sent[e].topic, payload |-> sent[e].payload,
                         handler |-> disp[e].runs[k][1],
                         backend |-> sent[e].backend,
                         failed |-> ~disp[e].runs[k][2]]],
                   LAMBDA r : r.failed)

\* C23: on either backend the handler calls of a dispatch, and the results of
\* its runs, are those of the policy for the handlers of the topic and the
\* pattern of handler failures, and the dead-letter records are those of the
\* failed runs, the backend field being the only one that names the backend.
BackendAgnosticPolicy ==
    /\ \A e \in 1..Len(disp) :
           disp[e].state \in {"running", "done"} =>
               LET calls == disp[e].calls
                   ref == Policy(disp[e].snapshot,
                                 [k \in 1..Len(calls) |-> calls[k][3]],
                                 cfg.retries, 1, 0)
               IN
               /\ [k \in 1..Len(calls) |-> calls[k][1]] = ref.calls
               /\ \A k \in 1..Len(calls) : calls[k][2] = sent[e].payload
               /\ disp[e].runs = ref.runs
               /\ disp[e].state = "done" =>
                      Len(disp[e].runs) = Len(disp[e].snapshot)
    /\ LET failed == FailedRunList(Len(disp)) IN
       /\ Len(dlq) = Len(failed)
       /\ \A k \in 1..Len(dlq) :
              /\ dlq[k].backend = failed[k].backend
              /\ [dlq[k] EXCEPT !.backend = "", !.created_at = NoTime,
                                !.updated_at = NoTime,
                                !.last_failed_at = NoTime]
                     = [topic |-> failed[k].topic,
                        payload |-> failed[k].payload,
                        handler |-> failed[k].handler, backend |-> "",
                        error |-> "exc", attempts |-> cfg.retries + 1,
                        status |-> "failed", retry_count |-> 0,
                        created_at |-> NoTime, updated_at |-> NoTime,
                        last_failed_at |-> NoTime, last_retry_at |-> NoTime]

\* The broker backend dispatched an envelope to two handlers, the first of
\* which exhausted its retries and the second of which returned after a retry.
BrokerDispatchDeadLettered ==
    \E e \in 1..Len(disp) :
        /\ sent[e].backend = "kafka"
        /\ disp[e].state = "done"
        /\ Len(disp[e].calls) = 4
        /\ disp[e].runs = << <<disp[e].snapshot[1], FALSE>>,
                             <<disp[e].snapshot[2], TRUE>> >>
        /\ Len(dlq) = 1
        /\ dlq[1].backend = "kafka"

\* C24: a single replay by the operator with an id that is not a valid store
\* id returns ok = false with reason invalid_dead_letter_id, and one with a
\* valid id that no record has returns ok = false with reason
\* dead_letter_not_found; neither changes a record or publishes anything.
BadIdReplayIsStructured ==
    [][ (/\ budget'.replay = budget.replay - 1
         /\ lastReplay'.n = lastReplay.n + 1
         /\ lastReplay'.id \notin 1..Len(dlq))
        => /\ lastReplay'.origin = "admin"
           /\ ~lastReplay'.ok
           /\ lastReplay'.reason = IF lastReplay'.id = InvalidId
                                   THEN "invalid_dead_letter_id"
                                   ELSE "dead_letter_not_found"
           /\ ~lastReplay'.published
           /\ dlq' = dlq
           /\ UNCHANGED <<queue, pend, kafka, sent, nextEid, lastPublish>> ]_vars

\* The operator's replay of an id that no record of a store with records has.
UnknownIdReplayed ==
    /\ lastReplay.origin = "admin"
    /\ lastReplay.id = Len(dlq) + 1
    /\ dlq # <<>>
    /\ lastReplay.reason = "dead_letter_not_found"
    /\ ~lastReplay.ok

\* What every listing does, whatever its filter: at most clamp(limit, 1, 200)
\* records, newest first, none twice, and as many as the limit allows of the
\* records that pass `matches`.
ListShape(matches(_)) ==
    LET items == lastList.items
        store == lastList.store
        cap == IF lastList.limit < 1 THEN 1
               ELSE IF lastList.limit > 200 THEN 200 ELSE lastList.limit
        matching == {i \in 1..Len(store) : matches(store[i])}
    IN
    /\ lastList.fetch_limit = cap
    /\ Len(items) <= cap
    /\ \A k \in 1..Len(items) : items[k] \in matching
    /\ \A k, l \in 1..Len(items) :
           k < l => /\ items[k] # items[l]
                    /\ store[items[k]].created_at >= store[items[l]].created_at
    /\ \A i \in matching :
           (\A k \in 1..Len(items) : items[k] # i) =>
               /\ Len(items) = cap
               /\ \A k \in 1..Len(items) :
                      store[items[k]].created_at >= store[i].created_at

ExactStatus(doc) ==
    lastList.status = NoStatus \/ doc.status = lastList.status

NormalizedStatus(doc) ==
    \/ lastList.status \in {NoStatus, ""}
    \/ doc.status = NormalizeStatus(lastList.status)

\* C25 as stated: the listing holds, newest first and up to the clamped limit,
\* only records whose status equals the status given.
ListFiltersByGivenStatus == lastList.done => ListShape(ExactStatus)

\* C25: the listing holds, newest first and up to clamp(limit, 1, 200), the
\* records whose status equals the given status trimmed and in lower case, an
\* empty status being no filter; and listing changes no record.
ListFiltersByNormalizedStatus ==
    /\ [](lastList.done => ListShape(NormalizedStatus))
    /\ [][lastList' # lastList => dlq' = dlq]_vars

\* A listing with an upper-case status and a limit below 1 returned one record.
UpperCaseStatusListed ==
    /\ lastList.done
    /\ lastList.status = "FAILED"
    /\ lastList.limit = 0
    /\ Len(lastList.items) = 1
    /\ Cardinality({i \in 1..Len(lastList.store) :
                        lastList.store[i].status = "failed"}) = 2

\* C26: when data refresh events are enabled the emit makes exactly one
\* publish, on the data refresh topic, with key = ticker and the payload's
\* duration_ms the whole milliseconds from started_at to finished_at, 0 when
\* finished_at is earlier; when disabled it publishes nothing; it never raises.
EmitPublishesOnce ==
    lastEmit.done =>
        /\ ~lastEmit.raised
        /\ ~lastEmit.enabled => lastEmit.calls = <<>>
        /\ lastEmit.enabled =>
              /\ Len(lastEmit.calls) = 1
              /\ LET c == lastEmit.calls[1]
                     us == lastEmit.finished_at - lastEmit.started_at
                 IN
                 /\ c.topic = "data.refresh.completed.v1"
                 /\ c.key = c.payload.ticker
                 /\ c.key \in EmitTickers
                 /\ c.payload.source = "scheduler"
                 /\ c.payload.started_at = lastEmit.started_at
                 /\ c.payload.finished_at = lastEmit.finished_at
                 /\ c.payload.duration_ms >= 0
                 /\ us >= 0 => /\ c.payload.duration_ms * 1000 <= us
                               /\ us < (c.payload.duration_ms + 1) * 1000
                 /\ us < 0 => c.payload.duration_ms = 0

\* An emit whose finished_at is earlier than its started_at, with a publish
\* that raises.
EmitWithNegativeDuration ==
    /\ lastEmit.done
    /\ lastEmit.enabled
    /\ lastEmit.publish = "raise"
    /\ lastEmit.finished_at < lastEmit.started_at
    /\ Len(lastEmit.calls) = 1

\* C27: a scan that generated events publishes one realtime-dispatch event,
\* and calls the direct dispatch once when that publish returns false and not
\* at all when it returns true.
ScanPublishesOrFallsBack ==
    (lastScan.done /\ lastScan.generated > 0) =>
        /\ lastScan.publishes = 1
        /\ lastScan.fallbacks = IF lastScan.publish_returns THEN 0 ELSE 1

\* The refresh tokens of user u that /auth/refresh would accept now.
AcceptedTokens(u) ==
    {k \in 1..Len(auth.tokens) :
         auth.tokens[k].sub = u /\ RefreshStatus(auth, k) = 200}

\* C28: a successful refresh issues a refresh token other than the presented
\* one and replaces the user's stored hash by the new token's; a refresh token
\* that was redeemed is never accepted again; and at most one refresh token
\* per user is accepted at any time.
RefreshTokenRotation ==
    /\ (auth.last.op = "refresh" /\ auth.last.status = 200) =>
           LET new == auth.tokens[auth.last.issued]
               old == auth.tokens[auth.last.presented]
               doc == auth.users[auth.last.user]
           IN
           /\ new.kind = "refresh"
           /\ new.sub = old.sub
           /\ new.jti # old.jti
           /\ doc.hash # auth.last.prev_hash
           /\ doc.hash = <<"sha256", new.jti>>
           /\ doc.hash # <<"sha256", old.jti>>
    /\ \A k \in 1..Len(auth.tokens) :
           auth.tokens[k].redeemed => RefreshStatus(auth, k) = 401
    /\ \A u \in Users : Cardinality(AcceptedTokens(u)) <= 1

\* A refresh token that was redeemed is presented again before it expires and
\* is rejected, while its successor is the accepted one.
StaleRefreshRejected ==
    /\ auth.last.op = "refresh"
    /\ auth.last.status = 401
    /\ auth.last.presented # 0
    /\ auth.tokens[auth.last.presented].redeemed
    /\ auth.tokens[auth.last.presented].exp >= auth.now
    /\ AcceptedTokens(auth.last.user) # {}

\* C29: a successful logout removes the user's stored refresh-token hash, and
\* from then until the user logs in again no refresh token of the user is
\* accepted: a refresh presenting one is answered 401.
LogoutRevokesRefreshTokens ==
    /\ (auth.last.op = "logout" /\ auth.last.status = 200) =>
           auth.users[auth.last.user].hash = NoHash
    /\ \A u \in Users :
           auth.logged_out[u] =>
               /\ auth.users[u].hash = NoHash
               /\ AcceptedTokens(u) = {}
    /\ (auth.last.op = "refresh" /\ auth.last.was_logged_out) =>
           auth.last.status = 401

\* After a logout, the refresh token that was the accepted one is presented
\* before it expires and is rejected.
RefreshAfterLogoutRejected ==
    /\ auth.last.op = "refresh"
    /\ auth.last.was_logged_out
    /\ auth.last.status = 401
    /\ auth.last.presented # 0
    /\ auth.tokens[auth.last.presented].kind = "refresh"
    /\ ~auth.tokens[auth.last.presented].redeemed
    /\ auth.tokens[auth.last.presented].exp >= auth.now

\* Envelope e was accepted (publish returned true) and is in the queue of the
\* embedded backend, which is stopped and has no worker thread left.
Stranded(e) ==
    /\ e \in 1..Len(sent)
    /\ sent[e].backend = "memory"
    /\ sent[e].accepted = "yes"
    /\ \E j \in 1..Len(queue) : ~IsNone(queue[j]) /\ queue[j].event_id = e
    /\ ~running
    /\ \A i \in 1..Len(threads) : threads[i].backend # "memory"

\* C30: no envelope that the embedded backend's publish() accepted is left in
\* the queue when the backend is stopped and its worker has ended, whether it
\* was queued before stop() or its publish() interleaved with stop().
NoAcceptedEnvelopeStranded ==
    \A e \in 1..Len(sent) : ~Stranded(e)

\* The fields of a dead-letter record that are written at its creation only.
Created(doc) ==
    <<doc.topic, doc.payload, doc.handler, doc.backend, doc.attempts,
      doc.created_at>>

\* C31: in every step no dead-letter record is deleted and no record's topic,
\* payload, handler, backend or attempts changes; a record is added only by an
\* executor run that ends exhausted (one record, status failed, retry_count 0);
\* an existing record changes only in a step in which a replay of that record
\* returns; and a step of publish, subscribe, start, stop, status or list
\* leaves the store as it is.
DeadLetterLifecycle ==
    [][/\ Len(dlq') >= Len(dlq)
       /\ \A i \in 1..Len(dlq) : Created(dlq'[i]) = Created(dlq[i])
       /\ Len(dlq') > Len(dlq) =>
              /\ Len(dlq') = Len(dlq) + 1
              /\ lastRun' # lastRun
              /\ ~lastRun'.result
              /\ \A k \in 1..Len(lastRun'.outcomes) : ~lastRun'.outcomes[k]
              /\ Len(lastRun'.outcomes) = cfg.retries + 1
              /\ dlq'[Len(dlq')].status = "failed"
              /\ dlq'[Len(dlq')].retry_count = 0
              /\ \A i \in 1..Len(dlq) : dlq'[i] = dlq[i]
       /\ \A i \in 1..Len(dlq) :
              dlq'[i] # dlq[i] =>
                  /\ lastReplay'.n = lastReplay.n + 1
                  /\ lastReplay'.id = i
                  /\ Len(dlq') = Len(dlq)
       /\ (\/ (lastPublish' # lastPublish /\ lastPublish'.origin = "api")
           \/ event_subscriptions' # event_subscriptions
           \/ handlers' # handlers
           \/ lastStart' # lastStart
           \/ budget'.stop # budget.stop
           \/ lastStatus' # lastStatus
           \/ lastList' # lastList) => dlq' = dlq
      ]_vars

\* A record that an executor run of this process created has been replayed, and
\* the store has been listed and counted by status.
CreatedThenReplayed ==
    /\ \E i \in 1..Len(dlq) :
           /\ dlq[i].attempts = cfg.retries + 1
           /\ dlq[i].created_at > 2
           /\ dlq[i].retry_count = 1
    /\ lastList.done
    /\ lastStatus.done

\* The waits of an executor run that has made n failed attempts each followed
\* by another attempt, with base backoff d.
ExpectedSleeps(n, d) ==
    IF d > 0 THEN [a \in 1..n |-> d * Pow2(a - 1)] ELSE <<>>

\* C32: an executor run waits backoff_ms * 2^a after failed attempt a (from 0)
\* when another attempt follows, and at no other time: a finished run of k
\* calls has waited k - 1 times, never after its last call, and not at all
\* with a base backoff of 0; a run in progress has waited once per attempt
\* made so far.
BackoffSchedule ==
    /\ lastRun.eid # 0 =>
           lastRun.sleeps = ExpectedSleeps(Len(lastRun.outcomes) - 1, cfg.delay_ms)
    /\ \A i \in 1..Len(threads) :
           threads[i].pc = "run" =>
               threads[i].sleeps = ExpectedSleeps(threads[i].attempt, cfg.delay_ms)

\* A run with 8 retries and the default base backoff was exhausted: it waited
\* 200, 400, ..., 25600 ms and not after the ninth call.
FullBackoffRun ==
    /\ cfg.retries = MaxRetriesCap
    /\ cfg.delay_ms = DefaultBackoff
    /\ lastRun.eid # 0
    /\ ~lastRun.result
    /\ Len(lastRun.outcomes) = MaxRetriesCap + 1
    /\ Len(lastRun.sleeps) = MaxRetriesCap
    /\ lastRun.sleeps[MaxRetriesCap] = 25600

\* The integer a text stands for, clamped to lo..hi; `unset` for a variable
\* that is not set or blank.
Effective(v, unset, lo, hi) ==
    CASE v \in {Unset, "", "   "} -> unset
      [] v = " 3 " -> 3
      [] v = "-5" -> lo
      [] v = "-1" -> lo
      [] v = "0" -> 0
      [] v = "9" -> IF hi < 9 THEN hi ELSE 9
      [] v = "5001" -> hi
      [] OTHER -> unset

\* C33: the effective max retries is the configured integer clamped to 0..8,
\* and 2 when it is not set; the effective base backoff is the configured
\* integer clamped to 0..5000 ms, and 200 when it is not set; every executor
\* run uses these values and calls its handler at most 9 times.
RetryConfigurationClamped ==
    /\ cfg.retries \in 0..8
    /\ cfg.delay_ms \in 0..5000
    /\ cfg.raw.retries \notin {"abc"} =>
           cfg.retries = Effective(cfg.raw.retries, 2, 0, 8)
    /\ cfg.raw.backoff \notin {"x1"} =>
           cfg.delay_ms = Effective(cfg.raw.backoff, 200, 0, 5000)
    /\ lastRun.eid # 0 =>
           /\ lastRun.retries = cfg.retries
           /\ lastRun.delay_ms = cfg.delay_ms
           /\ Len(lastRun.outcomes) <= 9
           /\ Len(lastRun.outcomes) <= cfg.retries + 1
    /\ \A i \in 1..Len(threads) : threads[i].attempt <= 8

\* With 9 configured, a run was exhausted after 9 calls; it waited the default
\* base backoff, which was not set.
ClampedRunExhausted ==
    /\ cfg.raw.retries = "9"
    /\ cfg.raw.backoff = Unset
    /\ lastRun.eid # 0
    /\ ~lastRun.result
    /\ Len(lastRun.outcomes) = 9
    /\ lastRun.sleeps[1] = 200

\* Some numeric variable of the environment holds a text that is no number.
InvalidNumber ==
    \/ cfg.raw.retries = "abc"
    \/ cfg.raw.backoff = "x1"
    \/ cfg.raw.queue_max = "abc"

\* C34 (as claimed): with a numeric variable that holds no valid number, the
\* creation of the bus reports a configuration error, and no executor run ever
\* works with a default in the place of the invalid value.
InvalidConfigurationFailsFast ==
    InvalidNumber =>
        /\ lastCreate.done => lastCreate.raised
        /\ event_bus_instance = "none"
        /\ lastRun.eid = 0

\* C34 (amended): with the embedded backend configured, a queue capacity that
\* int() does not accept raises ValueError from the first creation of the
\* bus, which then does not exist; a max-retries or backoff value that is no
\* integer is replaced by its default (2, 200 ms) without an error, and the
\* executor runs with that default.
InvalidQueueMaxRaisesOthersDefault ==
    /\ lastCreate.done =>
           (lastCreate.raised <=> cfg.raw.queue_max \in {"abc", ""})
    /\ lastCreate.raised =>
           /\ event_bus_instance = "none"
           /\ threads = <<>>
           /\ lastRun.eid = 0
    /\ cfg.raw.retries = "abc" =>
           /\ cfg.retries = 2
           /\ lastRun.eid # 0 => lastRun.retries = 2
    /\ cfg.raw.backoff = "x1" =>
           /\ cfg.delay_ms = 200
           /\ lastRun.eid # 0 => lastRun.delay_ms = 200

\* With texts that are no integers for max retries and backoff, the bus was
\* created without an error and a run was exhausted after 3 calls, having
\* waited 200 and 400 ms.
InvalidRetriesRanWithDefaults ==
    /\ cfg.raw.retries = "abc"
    /\ cfg.raw.backoff = "x1"
    /\ lastCreate.done
    /\ ~lastCreate.raised
    /\ lastRun.eid # 0
    /\ ~lastRun.result
    /\ lastRun.sleeps = <<200, 400>>

\* C35: a subscribe through the facade with a blank topic leaves no trace:
\* no recorded pair has a blank topic, so a start_event_bus that takes the
\* fallback path subscribes every recorded pair without an error and starts
\* the embedded backend.
BlankSubscribeLeavesStateUnchanged ==
    /\ \A k \in 1..Len(event_subscriptions) :
           Strip(event_subscriptions[k][1]) # ""
    /\ lastStart.path = "fallback" => ~lastStart.raised

\* The number of times handler h is registered for topic t on the embedded
\* backend.
Registrations(t, h) ==
    Cardinality({k \in 1..Len(handlers[t]) : handlers[t][k] = h})

\* C36: when a subscribe_event of a pair not recorded before and a
\* start_event_bus that took the fallback path have both returned, in whatever
\* order their steps were taken, the embedded backend is the active one and
\* the handler is registered on it for the topic exactly once.
SubscribeDuringFallbackOnce ==
    (/\ race.s = "done"
     /\ race.f = "done"
     /\ race.fresh
     /\ ~lastStart.raised) =>
        /\ event_bus_instance = "memory"
        /\ Registrations(Strip(race.topic), race.handler) = 1

\* The replay attempts begun on record id, and the outcomes they had.
AttemptsOn(id) ==
    Cardinality({k \in 1..Len(replays.attempts) : replays.attempts[k] = id})
OutcomesOn(id) ==
    {replays.outcomes[k][2] :
         k \in {j \in 1..Len(replays.outcomes) : replays.outcomes[j][1] = id}}

\* C37: when the replays running at the same time have all returned, each
\* record's retry_count has risen by exactly the number of replay attempts
\* made on it, and the status of a replayed record is the outcome of one of
\* these attempts, republished or retry_failed.
ConcurrentReplaysLoseNoUpdate ==
    (\A r \in Replayers : replays.run[r].pc = "idle") =>
        \A id \in 1..Len(ConcurrentStore) :
            /\ dlq[id].retry_count =
                   ConcurrentStore[id].retry_count + AttemptsOn(id)
            /\ AttemptsOn(id) > 0 =>
                   /\ dlq[id].status \in OutcomesOn(id)
                   /\ OutcomesOn(id) \subseteq {"republished", "retry_failed"}

\* One replay read the first record while another had read it and not yet
\* written it, one published it and another was refused, and every update is
\* in the record.
OverlappingReplaysApplied ==
    /\ \A r \in Replayers : replays.run[r].pc = "idle"
    /\ 1 \in replays.overlapped
    /\ AttemptsOn(1) >= 2
    /\ OutcomesOn(1) = {"republished", "retry_failed"}
    /\ dlq[1].retry_count = AttemptsOn(1)

\* The handlers called for event e.
CalledHandlers(e) == {disp[e].calls[k][1] : k \in 1..Len(disp[e].calls)}

\* C38: the envelope a replay published is dispatched to every handler found
\* subscribed to its topic, each called with the record's payload, whichever
\* handler the record names, and its dispatch is not left before the last of
\* them; and when a handler of a replayed envelope
\* exhausts its retries, one new record is appended with status failed and
\* retry_count 0, every earlier record is left as it was and the replayed
\* record has status republished.
ReplayRedeliversToEveryHandler ==
    /\ [](\A e \in 1..Len(disp) :
              /\ (sent[e].origin # "api" /\ disp[e].state = "running") =>
                     \E i \in 1..Len(threads) :
                         threads[i].pc = "run" /\ threads[i].eid = e
              /\ (sent[e].origin # "api" /\ disp[e].state = "done") =>
                     /\ CalledHandlers(e) = Range(disp[e].snapshot)
                     /\ \A k \in 1..Len(disp[e].calls) :
                            disp[e].calls[k][2] = sent[e].payload)
    /\ [][(/\ Len(dlq') > Len(dlq)
           /\ sent[lastRun'.eid].origin # "api") =>
              LET new == dlq'[Len(dlq')] IN
              /\ dlq' = Append(dlq, new)
              /\ new.status = "failed"
              /\ new.retry_count = 0
              /\ new.handler = lastRun'.handler
              /\ new.topic = sent[lastRun'.eid].topic
              /\ new.payload = sent[lastRun'.eid].payload
              /\ lastReplay.eid = lastRun'.eid =>
                     /\ lastReplay.id # Len(dlq')
                     /\ dlq'[lastReplay.id].status = "republished"]_vars

\* The record of handler h1 was replayed; h1 and h2 were both called with its
\* payload; h2 raised, and its dead letter is a second record beside the
\* replayed one.
ReplayReachedOtherHandler ==
    /\ lastReplay.n = 1
    /\ lastReplay.published
    /\ lastReplay.eid \in 1..Len(disp)
    /\ disp[lastReplay.eid].state = "done"
    /\ CalledHandlers(lastReplay.eid) = {"h1", "h2"}
    /\ Len(dlq) = 2
    /\ dlq[1].handler = "h1"
    /\ dlq[1].status = "republished"
    /\ dlq[2].handler = "h2"
    /\ dlq[2].status = "failed"
    /\ dlq[2].retry_count = 0

\* C39: a step in which a handler makes its last allowed attempt and raises
\* while the store refuses writes ends the run with the result False, writes
\* no dead letter, and leaves the dispatching thread alive and on the next
\* handler of the envelope, or idle for the next envelope after the last.
PersistFailureIsContained ==
    [][\A i \in 1..Len(threads) :
           (/\ ~store_up
            /\ threads[i].pc = "run"
            /\ threads[i].attempt >= cfg.retries
            /\ disp'[threads[i].eid].calls =
                   Append(disp[threads[i].eid].calls,
                          <<Head(threads[i].todo), threads[i].payload, FALSE>>)) =>
               /\ dlq' = dlq
               /\ lastRun'.eid = threads[i].eid
               /\ lastRun'.handler = Head(threads[i].todo)
               /\ lastRun'.result = FALSE
               /\ lastRun'.dlq = <<>>
               /\ disp'[threads[i].eid].state # "aborted"
               /\ Len(threads') = Len(threads)
               /\ IF Len(threads[i].todo) = 1
                  THEN /\ threads'[i].pc = "idle"
                       /\ disp'[threads[i].eid].state = "done"
                  ELSE /\ threads'[i].pc = "run"
                       /\ threads'[i].eid = threads[i].eid
                       /\ threads'[i].todo = Tail(threads[i].todo)]_vars

\* The first handler of the first envelope raised while the store refused
\* writes: no dead letter exists for it, the second handler was called for the
\* same envelope, and the next envelope was dispatched too.
LostDeadLetterDispatchWentOn ==
    /\ Len(disp) = 2
    /\ disp[1].state = "done"
    /\ disp[2].state = "done"
    /\ Len(disp[1].runs) = 2
    /\ disp[1].runs[1][2] = FALSE
    /\ disp[1].dead = 0
    /\ Len(disp[2].runs) = 2
    /\ dlq = <<>>

\* The refresh requests presenting token k that were answered 200.
Redemptions(k) ==
    Cardinality({j \in 1..Len(auth.redemptions) : auth.redemptions[j] = k})

\* C40: no refresh token is redeemed twice: of the refresh requests that
\* present the same token, served by any workers with their lookups and
\* updates of the stored hash in any order, at most one is answered 200.
RefreshTokenRedeemedAtMostOnce ==
    \A k \in 1..Len(auth.tokens) : Redemptions(k) <= 1

====
